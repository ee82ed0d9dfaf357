------------------------------ MODULE PageUpload ------------------------------
(***************************************************************************)
(* scanner/batch.py, _process_file and _upload_page_with_downsample: the   *)
(* pages that process_pdf makes of a document (Rendering) are what the     *)
(* threads send (Uploader), each at the size its rung of the ladder asks   *)
(* for.                                                                    *)
(***************************************************************************)
EXTENDS Uploader, Rendering

CONSTANTS
  Suffixes,     \* kinds of files that are scanned, of .pdf and .tiff
  Scans,        \* the documents of each kind
  PageWidths    \* widths of the rendered pages, in pixels

OsdAnswers == {"rotate", "mute", "error"}

ASSUME PageUploadAssumption ==
  /\ Rungs = Len(Ladder)
  /\ Suffixes \subseteq {"pdf", "tiff"}
  /\ \A suffix \in Suffixes : \A doc \in Scans[suffix] :
       doc \in Seq([lean : 0 .. 359, rotation : 0 .. 359, osd : OsdAnswers])
  /\ PageWidths \subseteq Nat \ {0}

-----------------------------------------------------------------------------
Sending == \E c \in Callers : pc[c] = "send"

(* What keeps a page from being sent upright.                              *)
MarkedPdf(suffix, p) == suffix = "pdf" /\ p.rotation # 0
Mute(p) == p.osd = "mute"

PagesTurned == \A suffix \in Suffixes : \A doc \in Scans[suffix] :
  LET pages == ProcessPdf(suffix, doc) IN
  /\ DOMAIN pages = DOMAIN doc
  /\ \A i \in DOMAIN pages :
       pages[i].lean = 0 \/ pages[i].uncertain \/ MarkedPdf(suffix, doc[i]) \/ Mute(doc[i])

(* Whatever way a page lies in its file, it is sent upright: the turn that *)
(* tesseract finds is the one that is applied, and once.  Three kinds of   *)
(* pages may go out otherwise: those on which tesseract failed, which      *)
(* leave process_pdf with the flag; those for which it named no turn; and  *)
(* PDF pages with a /Rotate, which get_pixmap has applied when _process_pdf *)
(* turns the image by it once more.                                        *)
SentTurned == Sending => PagesTurned

(* A page that was refused is sent again only at a size that is smaller,   *)
(* unless it is a single pixel wide, and never as an empty image.          *)
RungsShrink == \A c \in Callers : pc[c] = "send" =>
  \A w \in PageWidths :
    /\ WidthAt(w, rung[c]) \in 1 .. w
    /\ rung[c] > 0 =>
         WidthAt(w, rung[c]) < WidthAt(w, rung[c] - 1) \/ WidthAt(w, rung[c]) = 1

=============================================================================
