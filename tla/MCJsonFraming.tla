---------------------------- MODULE MCJsonFraming ----------------------------
(***************************************************************************)
(* Instances of JsonFraming: all objects of up to n characters.            *)
(***************************************************************************)
EXTENDS JsonFraming

Objects(n, chars) ==
  {s \in {<<"open">> \o t \o <<"close">> : t \in BoundedSeq(chars, n - 2)} : IsObject(s)}

MCPlainMessages ==
  {s \in Objects(5, Char \ {"backslash"}) : Plain(s)}
    \cup {<<"open", "quote", "backslash", "other", "quote", "close">>}
MCEscapeMessages == Objects(6, {"quote", "backslash", "other"})
=============================================================================
