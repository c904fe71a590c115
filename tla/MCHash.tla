------------------------------- MODULE MCHash -------------------------------
(* Instances of Hash for TLC. *)
EXTENDS Hash, SequencesExt
CONSTANTS a, b, x, w1, w2, dash, blank

MCWorker == {w1, w2}
MCName == {a, b, x}
MCReadable == {a, b}
\* A file list of up to MaxFiles operands, standard input of up to MaxLines.
MaxFiles == 3
MaxLines == 2
MCFileLists == BoundedSeq({a, x, dash}, MaxFiles)
MCStdins == BoundedSeq({b, x}, MaxLines)
=============================================================================
