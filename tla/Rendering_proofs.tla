--------------------------- MODULE Rendering_proofs ---------------------------
(***************************************************************************)
(* Proofs about Rendering: turning a page by what tesseract finds makes it *)
(* upright, at any angle, and the rungs of the ladder shrink every page;   *)
(* and about PageUpload: so is everything the threads send.                *)
(***************************************************************************)
EXTENDS PageUpload, Uploader_proofs

Degrees == 0 .. 359

Pages == [lean : Degrees, rotation : Degrees, osd : OsdAnswers]

(* The two turns cancel out.                                               *)
LEMMA TurnedUpright ==
  ASSUME NEW lean \in Degrees
  PROVE  Turned(lean, ImageToOsd(lean)) = 0
<1>1. CASE lean = 0
  BY <1>1 DEF Turned, ImageToOsd
<1>2. CASE lean # 0
  <2>1. (360 - lean) % 360 = 360 - lean
    BY <1>2 DEF Degrees
  <2> QED BY <2>1 DEF Turned, ImageToOsd, Degrees
<1> QED BY <1>1, <1>2

(* Tier 2: a page for which tesseract names a turn is turned upright, and  *)
(* one on which it fails is flagged.                                       *)
LEMMA TierTwo ==
  ASSUME NEW lean \in Degrees, NEW osd \in OsdAnswers \ {"mute"}
  PROVE  LET result == Corrected(lean, OsdRotationFromImage(lean, osd)) IN
         result.lean = 0 \/ result.uncertain
<1>1. CASE osd = "rotate"
  BY <1>1, TurnedUpright DEF Corrected, OsdRotationFromImage, ParseOsd
<1>2. CASE osd = "error"
  BY <1>2 DEF Corrected, OsdRotationFromImage
<1> QED BY <1>1, <1>2 DEF OsdAnswers

LEMMA TurnedDegrees ==
  ASSUME NEW lean \in Degrees, NEW degrees \in Degrees
  PROVE  Turned(lean, degrees) \in Degrees
  BY DEF Turned, Degrees

LEMMA NotTurned ==
  ASSUME NEW lean \in Degrees
  PROVE  Turned(lean, 0) = lean
  BY DEF Turned, Degrees

(* At whatever angle a page lies, it leaves process_pdf upright or flagged *)
(* as uncertain, but for two kinds: a PDF page with a /Rotate, which is    *)
(* applied twice, and a page for which tesseract's answer names no turn,   *)
(* of which _parse_osd_string makes 0 (_process_tiff, _process_pdf).       *)
THEOREM TurnedUpOrExcepted ==
  ASSUME NEW suffix \in {"pdf", "tiff"}, NEW doc \in Seq(Pages), NEW i \in DOMAIN doc
  PROVE  \/ ProcessPdf(suffix, doc)[i].lean = 0 \/ ProcessPdf(suffix, doc)[i].uncertain
         \/ MarkedPdf(suffix, doc[i]) \/ Mute(doc[i])
<1>1. SUFFICES ASSUME ~MarkedPdf(suffix, doc[i]), ~Mute(doc[i])
               PROVE  ProcessPdf(suffix, doc)[i].lean = 0 \/ ProcessPdf(suffix, doc)[i].uncertain
  OBVIOUS
<1>2. doc[i].lean \in Degrees /\ doc[i].rotation \in Degrees /\ doc[i].osd \in OsdAnswers \ {"mute"}
  <2>1. doc[i] \in Pages
    OBVIOUS
  <2> QED BY <1>1, <2>1 DEF Pages, Mute
<1>3. CASE suffix = "tiff"
  <2> DEFINE upright == ExifTranspose(doc[i])
  <2>1. upright \in Degrees
    BY <1>2, TurnedDegrees DEF ExifTranspose
  <2>2. ProcessPdf(suffix, doc)[i] = Corrected(upright, OsdRotationFromImage(upright, doc[i].osd))
    BY <1>3 DEF ProcessPdf, ProcessTiff
  <2> HIDE DEF upright
  <2> QED BY <1>2, <2>1, <2>2, TierTwo
<1>4. CASE suffix = "pdf"
  <2>1. doc[i].rotation = 0
    BY <1>1, <1>4 DEF MarkedPdf
  <2>2. RenderPage(doc[i]) = doc[i].lean
    BY <1>2, <2>1, NotTurned DEF RenderPage, GetPixmap
  <2>3. ProcessPdf(suffix, doc)[i] =
          Corrected(doc[i].lean, OsdRotationFromImage(doc[i].lean, doc[i].osd))
    BY <1>4, <2>1, <2>2 DEF ProcessPdf, ProcessPdfPages, DetectOrientation
  <2> QED BY <1>2, <2>3, TierTwo
<1> QED BY <1>3, <1>4

-----------------------------------------------------------------------------
(* round(w / 2) and round(w / 4), as the ladder's rungs ask for.           *)
LEMMA RungWidths ==
  ASSUME NEW w \in Nat \ {0}
  PROVE  /\ Round(w * 150, 300) \in Nat /\ 2 * Round(w * 150, 300) <= w + 1
         /\ Round(w * 75, 300) \in Nat /\ 4 * Round(w * 75, 300) <= w + 2
         /\ 2 * Round(w * 150, 300) >= w - 1
  BY DEF Round

(* Each rung of DOWNSAMPLE_DPI_LADDER makes a page smaller than the one    *)
(* before, down to a single pixel and no further (downsample_image).       *)
THEOREM RungsGetSmaller ==
  ASSUME NEW w \in Nat \ {0}, NEW step \in 0 .. Len(Ladder)
  PROVE  /\ WidthAt(w, step) \in 1 .. w
         /\ step > 0 => WidthAt(w, step) < WidthAt(w, step - 1) \/ WidthAt(w, step) = 1
<1>1. step \in {0, 1, 2} /\ Ladder[1] = 150 /\ Ladder[2] = 75
  BY DEF Ladder
<1> DEFINE half == Round(w * 150, 300)
           quarter == Round(w * 75, 300)
<1>2. /\ WidthAt(w, 0) = w
      /\ WidthAt(w, 1) = (IF half < 1 THEN 1 ELSE half)
      /\ WidthAt(w, 2) = (IF quarter < 1 THEN 1 ELSE quarter)
  BY <1>1 DEF WidthAt, Downsample, RenderDpi
<1>3. /\ half \in Nat /\ quarter \in Nat /\ 2 * half <= w + 1 /\ 2 * half >= w - 1
      /\ 4 * quarter <= w + 2
  BY RungWidths
<1> HIDE DEF half, quarter
<1> QED BY <1>1, <1>2, <1>3

-----------------------------------------------------------------------------
(* What the threads send is upright, flagged, or one of the two kinds of   *)
(* page named above, for any documents, threads and answers of the backend. *)
THEOREM TurnedWhenSent == Spec => []SentTurned
<1>1. PagesTurned
  <2>1. SUFFICES ASSUME NEW suffix \in Suffixes, NEW doc \in Scans[suffix]
                 PROVE  /\ DOMAIN ProcessPdf(suffix, doc) = DOMAIN doc
                        /\ \A i \in DOMAIN doc :
                             \/ ProcessPdf(suffix, doc)[i].lean = 0
                             \/ ProcessPdf(suffix, doc)[i].uncertain
                             \/ MarkedPdf(suffix, doc[i]) \/ Mute(doc[i])
    BY DEF PagesTurned
  <2>2. suffix \in {"pdf", "tiff"} /\ doc \in Seq(Pages)
    BY PageUploadAssumption DEF Pages, Degrees
  <2>3. DOMAIN ProcessPdf(suffix, doc) = DOMAIN doc
    BY DEF ProcessPdf, ProcessTiff, ProcessPdfPages
  <2> QED BY <2>2, <2>3, TurnedUpOrExcepted
<1>2. TypeOK => SentTurned
  BY <1>1 DEF SentTurned
<1> QED BY <1>2, TypeCorrect, PTL

(* A page that was refused is sent again smaller, or as the single pixel   *)
(* it already is, whatever its width and whatever failed in between.       *)
THEOREM SmallerEachTime == Spec => []RungsShrink
<1>1. TypeOK => RungsShrink
  <2> SUFFICES ASSUME TypeOK, NEW c \in Callers, NEW w \in PageWidths
               PROVE  /\ WidthAt(w, rung[c]) \in 1 .. w
                      /\ rung[c] > 0 => \/ WidthAt(w, rung[c]) < WidthAt(w, rung[c] - 1)
                                        \/ WidthAt(w, rung[c]) = 1
    BY DEF RungsShrink
  <2>1. w \in Nat \ {0} /\ rung[c] \in 0 .. Len(Ladder)
    BY PageUploadAssumption DEF TypeOK
  <2> QED BY <2>1, RungsGetSmaller
<1> QED BY <1>1, TypeCorrect, PTL

=============================================================================
