----------------------------- MODULE Directory -----------------------------
(***************************************************************************)
(* What the NetDB entry table promises the handlers that use it (spec 4.2, *)
(* 8.1): a map from address to the signed fields of the last verified     *)
(* entry announced for it.  An announce of an entry that fails Verify      *)
(* changes nothing and is refused; a verified one is stored, and its      *)
(* answer may still be a refusal (a later step of the insert can fail),   *)
(* or its write fails, and it is refused with the map left as it was.     *)
(* Every other request leaves the map as it is.                            *)
(*                                                                         *)
(*   dir     address -> [key, ver, sig] as stored;                         *)
(*   answer  <<>>, or <<[entry, ok]>> for the last request when it was an  *)
(*           announce.                                                     *)
(***************************************************************************)
EXTENDS ZifAddress

CONSTANT Entries

VARIABLES dir, answer

Stored(e) == [key |-> e.key, ver |-> e.ver, sig |-> e.sig]

Init ==
    /\ dir = [a \in {} |-> Stored(CHOOSE e \in Entries : TRUE)]
    /\ answer = <<>>

Refuse(e) ==
    /\ answer' = <<[entry |-> e, ok |-> FALSE]>>
    /\ UNCHANGED dir

Announce(e) ==
    IF Verify(e)
    THEN \/ /\ dir' = [a \in DOMAIN dir \cup {e.addr} |->
                         IF a = e.addr THEN Stored(e) ELSE dir[a]]
            /\ answer' \in {<<[entry |-> e, ok |-> b]>> : b \in BOOLEAN}
         \/ Refuse(e)
    ELSE Refuse(e)

Other ==
    /\ answer' = <<>>
    /\ UNCHANGED dir

Next == (\E e \in Entries : Announce(e)) \/ Other

Spec == Init /\ [][Next]_<<dir, answer>>

=============================================================================
