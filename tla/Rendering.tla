------------------------------ MODULE Rendering ------------------------------
(***************************************************************************)
(* scanner/pdf_processor.py: which way up a page is uploaded, and how      *)
(* large.  Of an image there is left its lean, the degrees by which its    *)
(* content is turned clockwise from upright, and its width; the height     *)
(* goes the same way.  A document is a sequence of pages or frames:        *)
(*   lean      how the content lies in the file                            *)
(*   rotation  /Rotate of a PDF page, the EXIF turn of a TIFF frame: the   *)
(*             degrees clockwise by which a viewer turns it for display    *)
(*   osd       how tesseract answers for it: "rotate", with the turn it    *)
(*             needs; "mute", without a turn that can be read; "error"     *)
(***************************************************************************)
EXTENDS Integers, Sequences

RenderDpi == 300

(* The image, turned clockwise.                                            *)
Turned(lean, degrees) == (lean + degrees) % 360

(* page.get_pixmap of PyMuPDF renders what a viewer shows: /Rotate has     *)
(* been applied.                                                           *)
GetPixmap(p) == Turned(p.lean, p.rotation)

(* ImageOps.exif_transpose does the same for a frame's EXIF tag.           *)
ExifTranspose(p) == Turned(p.lean, p.rotation)

(* image_to_osd: the clockwise turn that makes the image upright.          *)
ImageToOsd(lean) == (360 - lean) % 360

RenderPage(p) == GetPixmap(p)

(* The text of the answer: the turn is 0 if there is none, or none that is *)
(* a number.                                                               *)
ParseOsd(lean, osd) == IF osd = "rotate" THEN ImageToOsd(lean) ELSE 0

(* Variant with a mistake: a failure looks like an upright page.           *)
OsdRotationFromImage_Silent(lean, osd) ==
  [rotation |-> ParseOsd(lean, osd), uncertain |-> FALSE]

(* Only an exception is uncertain; an answer that names no turn counts as  *)
(* an upright page.                                                        *)
OsdRotationFromImage(lean, osd) ==
  IF osd = "error" THEN [rotation |-> 0, uncertain |-> TRUE]
                   ELSE [rotation |-> ParseOsd(lean, osd), uncertain |-> FALSE]

(* Tier 1 is the page's /Rotate, tier 2 is tesseract on the image.         *)
DetectOrientation(p) ==
  IF p.rotation # 0 THEN [rotation |-> p.rotation, uncertain |-> FALSE]
                    ELSE OsdRotationFromImage(RenderPage(p), p.osd)

(* pil_image.rotate(-n): PIL counts counter-clockwise.                     *)
Corrected(lean, found) ==
  [lean |-> Turned(lean, found.rotation), uncertain |-> found.uncertain]

ProcessPdfPages(doc) ==
  [i \in DOMAIN doc |-> Corrected(RenderPage(doc[i]), DetectOrientation(doc[i]))]

ProcessTiff(doc) ==
  [i \in DOMAIN doc |->
     LET upright == ExifTranspose(doc[i]) IN
     Corrected(upright, OsdRotationFromImage(upright, doc[i].osd))]

ProcessPdf(suffix, doc) ==
  IF suffix = "tiff" THEN ProcessTiff(doc) ELSE ProcessPdfPages(doc)

(* Python's round(n / d): a half goes to the even neighbour.               *)
Round(n, d) ==
  LET q == n \div d  r == n % d IN
  IF 2 * r < d \/ (2 * r = d /\ q % 2 = 0) THEN q ELSE q + 1

(* Variant with a mistake: nothing keeps the width from vanishing.         *)
Downsample_ToNothing(width, dpi) ==
  IF dpi >= RenderDpi THEN width ELSE Round(width * dpi, RenderDpi)

Downsample(width, dpi) ==
  IF dpi >= RenderDpi THEN width
  ELSE LET scaled == Round(width * dpi, RenderDpi) IN IF scaled < 1 THEN 1 ELSE scaled

(* DOWNSAMPLE_DPI_LADDER, below the full size; each rung starts from the   *)
(* page as it was rendered.                                                *)
Ladder == <<150, 75>>

WidthAt(width, rung) == IF rung = 0 THEN width ELSE Downsample(width, Ladder[rung])

=============================================================================
