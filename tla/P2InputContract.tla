--------------------------- MODULE P2InputContract ---------------------------
(***************************************************************************)
(* What an input stream promises its readers, whoever they are and however *)
(* many: the bytes of the source, each once and in order; then, if the     *)
(* source failed, that failure once; then only the end of the stream.      *)
(* Bytes are numbered by their place in the source.                        *)
(***************************************************************************)
EXTENDS Integers, Sequences

CONSTANT MaxBytes   \* bound on the bytes the source yields

VARIABLES produced,   \* bytes the source has yielded
          ended,      \* how the source ended, if it did
          delivered,  \* bytes the readers have received
          reported    \* what the readers were told about the end

vars == <<produced, ended, delivered, reported>>

Init ==
  /\ produced = 0 /\ ended \in {"no", "eof"}
  /\ delivered = <<>> /\ reported = "nothing"

Produce ==
  /\ ended = "no"
  /\ produced' \in produced..MaxBytes
  /\ ended' \in {"no", "eof", "fail"}
  /\ UNCHANGED <<delivered, reported>>

\* The next n bytes.
Deliver(n) ==
  /\ reported = "nothing" /\ Len(delivered) + n <= produced
  /\ delivered' = delivered \o [j \in 1..n |-> Len(delivered) + j]
  /\ UNCHANGED <<produced, ended, reported>>

Drained == Len(delivered) = produced

ReportFailure ==
  /\ ended = "fail" /\ Drained /\ reported = "nothing"
  /\ reported' = "failure"
  /\ UNCHANGED <<produced, ended, delivered>>

ReportEnd ==
  /\ (ended = "eof" /\ Drained) \/ reported = "failure"
  /\ reported' = "end"
  /\ UNCHANGED <<produced, ended, delivered>>

Next ==
  \/ Produce
  \/ \E n \in 1..MaxBytes : Deliver(n)
  \/ ReportFailure
  \/ ReportEnd

Spec == Init /\ [][Next]_vars
==============================================================================
