-------------------------- MODULE QueueLogContract --------------------------
(***************************************************************************)
(* What the import of queue_log promises, whatever happens to the files it *)
(* keeps its place in: every line takes effect exactly once and in order.  *)
(* There are two exceptions.  Lines that the exchange moved away with a    *)
(* rotation before they were read may be left out; and an import that a    *)
(* rotation overtakes may bring forward lines from the middle of the new   *)
(* file, which are not dealt with until that file is read from its start.  *)
(***************************************************************************)
EXTENDS QueueLogLines, Naturals

VARIABLES
  history,   (* every line written so far *)
  base,      (* how many of them are in files rotated away *)
  upto,      (* the import has dealt with the lines up to this one *)
  status     (* of each call in queue_calls *)

contractVars == <<history, base, upto, status>>

(* What one line says about a call; of an unknown call only its entry does. *)
Says(line, known) ==
  IF line.kind = "ENTERQUEUE" THEN "ENTERED"
  ELSE IF known = "none" THEN known
  ELSE CASE line.kind = "CONNECT"  -> "ANSWERED"
         [] line.kind \in LogExits -> ExitStatus(line.kind)
         [] OTHER                  -> known

After(known, lines) ==
  LET after[i \in 0..Len(lines)] ==
        IF i = 0 THEN known
        ELSE [after[i - 1] EXCEPT ![lines[i].call] = Says(lines[i], @)]
  IN  after[Len(lines)]

Write(line) ==
  /\ history' = Append(history, line)
  /\ UNCHANGED <<base, upto, status>>

Rotate ==
  /\ base' = Len(history)
  /\ UNCHANGED <<history, upto, status>>

(* It goes on from where it stopped, or from the start of a later file.    *)
Import ==
  \E from \in {upto} \cup upto..base : \E n \in from..Len(history) :
    /\ upto' = n
    /\ status' = After(status, SubSeq(history, from + 1, n))
    /\ UNCHANGED <<history, base>>

ImportAhead ==
  \E from \in upto + 1..Len(history) : \E n \in from..Len(history) :
    /\ upto <= base
    /\ status' = After(status, SubSeq(history, from + 1, n))
    /\ UNCHANGED <<history, base, upto>>

ContractInit ==
  /\ history \in Seq(Line)
  /\ base = 0
  /\ upto \in 0..Len(history)
  /\ status = After([c \in Calls |-> "none"], SubSeq(history, 1, upto))

ContractNext == (\E line \in Line : Write(line)) \/ Rotate \/ Import \/ ImportAhead

Contract == ContractInit /\ [][ContractNext]_contractVars
=============================================================================
