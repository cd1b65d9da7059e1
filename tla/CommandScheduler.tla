-------------------------- MODULE CommandScheduler --------------------------
(***************************************************************************)
(* What cachingQueue promises to the code that posts commands, without the *)
(* thread, the timer, the counter and the multimap: a first-in first-out   *)
(* line per priority class.                                                *)
(*   - Sending takes the head of one line; the Immediate line goes first.  *)
(*   - A command that is not recurring is sent once and is gone; a         *)
(*     recurring one goes to the end of its line and so is sent again only *)
(*     after everything that waits in that line.                           *)
(*   - Whatever else happens may withdraw commands and may put a new one   *)
(*     at the end of a line, but sends nothing and reorders nothing.       *)
(***************************************************************************)
EXTENDS Integers, Sequences

CONSTANTS Lines,        \* the priority classes
          First,        \* the line that is always served first
          NothingSent   \* the value of out before the first command

VARIABLES line,         \* the waiting commands of each class, oldest first
          out           \* the command sent last

(* t is s without some of its members, followed by at most one new member: keep
   says where each of the first m members of t stood in s. *)
IsAmended(s, t) ==
    \E m \in {Len(t), Len(t) - 1} : \E keep \in [1 .. m -> DOMAIN s] :
        /\ \A i, j \in 1 .. m : i < j => keep[i] < keep[j]
        /\ \A i \in 1 .. m : t[i] = s[keep[i]]

Send(p) ==
    /\ line[p] # <<>>
    /\ p # First => line[First] = <<>>
    /\ out' = Head(line[p])
    /\ line' = [line EXCEPT ![p] = IF out'.recurring THEN Append(Tail(line[p]), out')
                                   ELSE Tail(line[p])]

Amend ==
    /\ \A p \in Lines : IsAmended(line[p], line'[p])
    /\ UNCHANGED out

Init ==
    /\ line = [p \in Lines |-> <<>>]
    /\ out = NothingSent

Next == (\E p \in Lines : Send(p)) \/ Amend

Spec == Init /\ [][Next]_<<line, out>>
=============================================================================
