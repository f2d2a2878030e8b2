---------------------------- MODULE ReliableExec ----------------------------
(***************************************************************************)
(* What an exec promises about output, with no connections, sequence       *)
(* numbers, acknowledgements, datagrams or restarts in sight: a command    *)
(* produces chunks on two streams and in the end an exit code; a caller    *)
(* receives the chunks one by one in the order they were produced, and     *)
(* the code only after all of them.  The caller may give up at any time.   *)
(***************************************************************************)
EXTENDS Naturals, Sequences

VARIABLES
    produced,    \* items of the command so far; an Exit item is the last
    delivered,   \* items the caller has received
    result       \* "waiting", "returned" or "gave up"

absVars == <<produced, delivered, result>>

Over == produced # <<>> /\ produced[Len(produced)].type = "Exit"

AbsInit == produced = <<>> /\ delivered = <<>> /\ result = "waiting"

\* Any one item is added.
Produce ==
    /\ ~Over
    /\ Len(produced') = Len(produced) + 1
    /\ SubSeq(produced', 1, Len(produced)) = produced
    /\ UNCHANGED <<delivered, result>>

Deliver ==
    /\ result = "waiting" /\ Len(delivered) < Len(produced)
    /\ produced[Len(delivered) + 1].type # "Exit"
    /\ delivered' = Append(delivered, produced[Len(delivered) + 1])
    /\ UNCHANGED <<produced, result>>

Return ==
    /\ result = "waiting" /\ Len(delivered) < Len(produced)
    /\ produced[Len(delivered) + 1].type = "Exit"
    /\ delivered' = Append(delivered, produced[Len(delivered) + 1])
    /\ result' = "returned"
    /\ UNCHANGED produced

GiveUp ==
    /\ result = "waiting" /\ result' = "gave up"
    /\ UNCHANGED <<produced, delivered>>

AbsNext == Produce \/ Deliver \/ Return \/ GiveUp

AbsSpec == AbsInit /\ [][AbsNext]_absVars
=============================================================================
