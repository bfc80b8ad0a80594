--------------------------- MODULE MCFileSharing ----------------------------
(* Instances of FileSharing for TLC.                                         *)
EXTENDS FileSharing, TLC

\* A harmless text file, a genuine PDF, a PDF that is none, an executable whose
\* name does not fit once the uuid is put before its suffix.
Text    == [ext |-> "plain", big |-> FALSE, magic |-> FALSE, mime |-> "text", long |-> FALSE]
Pdf     == [ext |-> "pdf", big |-> FALSE, magic |-> TRUE, mime |-> "pdf", long |-> FALSE]
FakePdf == [ext |-> "pdf", big |-> FALSE, magic |-> FALSE, mime |-> "pdf", long |-> FALSE]
LongExe == [ext |-> "executable", big |-> TRUE, magic |-> FALSE, mime |-> "other", long |-> TRUE]

OnePdf == {Pdf}
PdfAndFake == {Pdf, FakePdf}
AllKinds == {Text, Pdf, FakePdf, LongExe}

\* Files, requests and workers are interchangeable; used by safety runs only.
Symmetry == Permutations(Files) \cup Permutations(Requests) \cup Permutations(Workers)
=============================================================================
