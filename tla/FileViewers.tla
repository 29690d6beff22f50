----------------------------- MODULE FileViewers -----------------------------
(***************************************************************************)
(* A document's files on screen: the viewer of one file, with its abortable *)
(* downloads and the reading of a text that no abort reaches; the dialog   *)
(* with a file's parsed content, which cancels nothing; and the viewer of  *)
(* PDF files: a document loaded for the URL it is given, a page drawn      *)
(* whenever the page or the zoom changes, and one canvas.  The loaded      *)
(* document is no signal: its arrival by itself draws nothing.             *)
(***************************************************************************)
EXTENDS Naturals, FiniteSets

(***************************************************************************)
(* The viewer of one file, and the dialog.                                 *)
(***************************************************************************)
CONSTANTS Files,
          TextFiles   \* those shown as text; the others by their object URL

ASSUME PreviewAssumption == TextFiles \subseteq Files

VARIABLES fileToView, textFileContent, textFileLoadComplete,
          downloading,  \* the file the current AbortController downloads
          reading,      \* texts being read from their blobs
          objectUrls,   \* fileObjectUrls, each with the file it was made of
          dialog,       \* the dialog: its file, the loads under way; history: none was when it opened
          hasty         \* history: a file was opened over one still coming

previewVars == <<fileToView, textFileContent, textFileLoadComplete, downloading, reading,
                 objectUrls, dialog, hasty>>
viewerVars == <<fileToView, textFileContent, textFileLoadComplete, downloading, reading, objectUrls>>

NoFile == "no file"
Blank == "blank"
Failed == "error"
ASSUME PreviewNames == {NoFile, Blank, Failed} \cap Files = {}

ClosedDialog == [file |-> NoFile, content |-> Blank, loading |-> FALSE, pending |-> {}, alone |-> TRUE]

PreviewInit ==
    /\ fileToView = NoFile /\ textFileContent = Blank /\ textFileLoadComplete = FALSE
    /\ downloading = NoFile /\ reading = {} /\ objectUrls = {}
    /\ dialog = ClosedDialog /\ hasty = FALSE

-----------------------------------------------------------------------------
\* An aborted download of a text reports its error once the click is handled,
\* and its handler marks the load of whatever is shown by then as complete.
AbortedText == downloading \in TextFiles

ViewFile(f) ==
    /\ fileToView' = f
    /\ textFileLoadComplete' = AbortedText
    /\ downloading' = IF f \in TextFiles \/ f \notin objectUrls THEN f ELSE NoFile
    /\ hasty' = (hasty \/ fileToView # NoFile \/ reading # {})
    /\ UNCHANGED <<textFileContent, reading, objectUrls, dialog>>

CloseFileViewer ==
    /\ fileToView # NoFile
    /\ fileToView' = NoFile /\ textFileContent' = Blank
    /\ textFileLoadComplete' = AbortedText
    /\ downloading' = NoFile
    /\ UNCHANGED <<reading, objectUrls, dialog, hasty>>

\* Mutant: a text is given an object URL as well, and nothing of it is read.
MutantDownloaded ==
    /\ downloading # NoFile
    /\ downloading' = NoFile
    /\ objectUrls' = objectUrls \cup {downloading}
    /\ UNCHANGED <<fileToView, textFileContent, textFileLoadComplete, reading, dialog, hasty>>

Downloaded ==
    /\ downloading # NoFile
    /\ downloading' = NoFile
    /\ IF downloading \in TextFiles
       THEN reading' = reading \cup {downloading} /\ UNCHANGED objectUrls
       ELSE objectUrls' = objectUrls \cup {downloading} /\ UNCHANGED reading
    /\ UNCHANGED <<fileToView, textFileContent, textFileLoadComplete, dialog, hasty>>

DownloadFails ==
    /\ downloading # NoFile
    /\ downloading' = NoFile
    /\ IF downloading \in TextFiles
       THEN textFileLoadComplete' = TRUE /\ textFileContent' = Failed
       ELSE UNCHANGED <<textFileLoadComplete, textFileContent>>
    /\ UNCHANGED <<fileToView, reading, objectUrls, dialog, hasty>>

\* blob.text() of a file, for the viewer as it is by then.
TextRead(f) ==
    /\ f \in reading
    /\ reading' = reading \ {f}
    /\ textFileContent' \in {f, Failed} /\ textFileLoadComplete' = TRUE
    /\ UNCHANGED <<fileToView, downloading, objectUrls, dialog, hasty>>

-----------------------------------------------------------------------------
\* The effect on the dialog's input starts a load; an earlier one goes on.
OpenFileContentDialog(f) ==
    /\ dialog.file # f
    /\ dialog' = [file |-> f, content |-> Blank, loading |-> TRUE, pending |-> dialog.pending \cup {f},
                 alone |-> dialog.pending = {}]
    /\ UNCHANGED <<viewerVars, hasty>>

CloseDialog ==
    /\ dialog.file # NoFile
    /\ dialog' = [ClosedDialog EXCEPT !.pending = dialog.pending]
    /\ UNCHANGED <<viewerVars, hasty>>

ContentLoaded(f, content) ==
    /\ f \in dialog.pending
    /\ dialog' = [dialog EXCEPT !.pending = @ \ {f}, !.content = content, !.loading = FALSE]
    /\ UNCHANGED <<viewerVars, hasty>>

PreviewNext ==
    \/ \E f \in Files : ViewFile(f) \/ TextRead(f)
    \/ CloseFileViewer \/ Downloaded \/ DownloadFails
    \/ CloseDialog
    \/ \E f \in Files :
           OpenFileContentDialog(f) \/ \E content \in {f, Failed} : ContentLoaded(f, content)

PreviewSpec == PreviewInit /\ [][PreviewNext]_previewVars

-----------------------------------------------------------------------------
PreviewTypeOK ==
    /\ fileToView \in Files \cup {NoFile} /\ downloading \in Files \cup {NoFile}
    /\ textFileContent \in Files \cup {Blank, Failed}
    /\ {textFileLoadComplete, hasty} \subseteq BOOLEAN
    /\ reading \subseteq TextFiles /\ objectUrls \subseteq Files \ TextFiles
    /\ dialog \in [file : Files \cup {NoFile}, content : Files \cup {Blank, Failed},
                   loading : BOOLEAN, pending : SUBSET Files, alone : BOOLEAN]

(* A text that is shown as loaded is the viewed file's own, or the message *)
(* that it failed, unless a file was opened while another was still shown  *)
(* or being read.                                                          *)
ViewedIsShown ==
    ~hasty /\ fileToView \in TextFiles /\ textFileLoadComplete =>
        textFileContent \in {fileToView, Failed}

(* "The file to show content for", as the dialog calls its input: once     *)
(* loaded, no other file's content is under its name; unless the load of   *)
(* another file was still under way when the dialog was given this one.    *)
DialogShowsItsFile ==
    dialog.file # NoFile /\ ~dialog.loading /\ dialog.alone => dialog.content \in {dialog.file, Failed}

-----------------------------------------------------------------------------
(***************************************************************************)
(* The viewer of PDF files.                                                *)
(***************************************************************************)
CONSTANTS Pdfs,      \* the URLs the viewer is given
          PageCount, \* pages of each document
          Turns      \* bound: pages turned and zooms changed

ASSUME PdfAssumption == PageCount \in [Pdfs -> Nat \ {0}] /\ Turns \in Nat

VARIABLES fileUrl,
          pdfLoads,    \* getDocument calls not yet resolved
          pdfDoc, totalPages, currentPage, scale,
          stale,       \* the drawing effect is to run
          drawing,     \* renderPage calls: page and scale, waiting or painting
          canvas,      \* what the canvas shows
          clashed,     \* history: two drawings, or two loads, overlapped
          turned,      \* history: the page or zoom changed since the load
          pdfSteps

pdfVars == <<fileUrl, pdfLoads, pdfDoc, totalPages, currentPage, scale, stale, drawing, canvas,
             clashed, turned, pdfSteps>>

NoPdf == "no pdf"
ASSUME PdfNames == NoPdf \notin Pdfs
Empty == [doc |-> NoPdf, page |-> 0, scale |-> 0]
Scales == 0 .. 1

PdfInit ==
    /\ fileUrl \in Pdfs /\ pdfLoads = {fileUrl}
    /\ pdfDoc = NoPdf /\ totalPages = 0 /\ currentPage = 1 /\ scale = 0
    /\ stale = TRUE /\ drawing = {} /\ canvas = Empty
    /\ clashed = FALSE /\ turned = FALSE /\ pdfSteps = 0

\* loadPdf resolves; currentPage.set(1) changes nothing when it is 1.
PdfLoaded(u) ==
    /\ u \in pdfLoads
    /\ pdfLoads' = pdfLoads \ {u}
    /\ pdfDoc' = u /\ totalPages' = PageCount[u] /\ currentPage' = 1
    /\ stale' = (stale \/ currentPage # 1)
    /\ turned' = (currentPage # 1)
    /\ UNCHANGED <<fileUrl, scale, drawing, canvas, clashed, pdfSteps>>

PdfFails(u) ==
    /\ u \in pdfLoads
    /\ pdfLoads' = pdfLoads \ {u}
    /\ UNCHANGED <<fileUrl, pdfDoc, totalPages, currentPage, scale, stale, drawing, canvas, clashed,
                   turned, pdfSteps>>

\* Another file whose URL is known already: the same viewer is given it.
ShowOtherPdf(u) ==
    /\ u # fileUrl /\ pdfSteps < Turns /\ pdfSteps' = pdfSteps + 1
    /\ fileUrl' = u /\ pdfLoads' = pdfLoads \cup {u}
    /\ clashed' = (clashed \/ pdfLoads # {} \/ drawing # {})
    /\ UNCHANGED <<pdfDoc, totalPages, currentPage, scale, stale, drawing, canvas, turned>>

\* The page buttons are disabled at the ends.
Turn(page, zoom) ==
    /\ pdfSteps < Turns /\ pdfSteps' = pdfSteps + 1
    /\ \/ zoom = scale /\ page \in {currentPage - 1, currentPage + 1} /\ page \in 1 .. totalPages
       \/ zoom # scale /\ page = currentPage
    /\ currentPage' = page /\ scale' = zoom
    /\ stale' = TRUE /\ turned' = TRUE
    /\ UNCHANGED <<fileUrl, pdfLoads, pdfDoc, totalPages, drawing, canvas, clashed>>

\* The effect on page and zoom; before a document is there it draws nothing.
Draw ==
    /\ stale /\ stale' = FALSE
    /\ IF pdfDoc = NoPdf THEN UNCHANGED <<drawing, clashed>>
       ELSE /\ drawing' = drawing \cup {[doc |-> pdfDoc, page |-> currentPage, scale |-> scale]}
            /\ clashed' = (clashed \/ drawing # {} \/ pdfLoads # {})
    /\ UNCHANGED <<fileUrl, pdfLoads, pdfDoc, totalPages, currentPage, scale, canvas, turned, pdfSteps>>

\* A page is painted. Beside another, pdf.js refuses one of them, and what the
\* canvas shows is whichever comes last.
Painted(d) ==
    /\ d \in drawing
    /\ drawing' = drawing \ {d}
    /\ canvas' = d \/ (clashed /\ UNCHANGED canvas)
    /\ UNCHANGED <<fileUrl, pdfLoads, pdfDoc, totalPages, currentPage, scale, stale, clashed, turned,
                   pdfSteps>>

PdfNext ==
    \/ \E u \in Pdfs : PdfLoaded(u) \/ PdfFails(u) \/ ShowOtherPdf(u)
    \/ \E page \in 1 .. totalPages, zoom \in Scales : Turn(page, zoom)
    \/ Draw \/ \E d \in drawing : Painted(d)

PdfSpec == PdfInit /\ [][PdfNext]_pdfVars

-----------------------------------------------------------------------------
PdfTypeOK ==
    /\ fileUrl \in Pdfs /\ pdfLoads \subseteq Pdfs /\ pdfDoc \in Pdfs \cup {NoPdf}
    /\ totalPages \in Nat /\ currentPage \in Nat \ {0} /\ scale \in Scales
    /\ drawing \subseteq [doc : Pdfs, page : Nat, scale : Scales]
    /\ canvas \in [doc : Pdfs, page : Nat, scale : Scales] \cup {Empty}
    /\ {stale, clashed, turned} \subseteq BOOLEAN /\ pdfSteps \in 0 .. Turns

AtRest == pdfLoads = {} /\ ~stale /\ drawing = {}
Wanted == [doc |-> pdfDoc, page |-> currentPage, scale |-> scale]

(* Once the page or zoom has changed, the canvas comes to show the page    *)
(* and zoom the buttons name, of the document loaded last, unless loads or *)
(* drawings overlapped.                                                    *)
TurnedIsDrawn == AtRest /\ turned /\ ~clashed => canvas = Wanted
=============================================================================
