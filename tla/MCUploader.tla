------------------------------ MODULE MCUploader ------------------------------
(* Instances of PageUpload for TLC.                                         *)
EXTENDS PageUpload, TLC

CONSTANTS c1, c2

TwoCallers == {c1, c2}

\* One page is taken at the first lower resolution, the other at none.
Sizes == c1 :> 1 @@ c2 :> 3

Angles == {0, 90, 180, 270}

PageKinds == [lean : Angles, rotation : Angles, osd : OsdAnswers]

DocumentsOf(pages) == {<<p>> : p \in pages} \cup {<<p, q>> : p \in pages, q \in pages}

\* Pages and frames of every kind, alone and in pairs.
AllScans == [suffix \in {"pdf", "tiff"} |-> DocumentsOf(PageKinds)]

UpTo40 == 1 .. 40

=============================================================================
