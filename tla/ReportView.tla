----------------------------- MODULE ReportView -----------------------------
(***************************************************************************)
(* The report page in the browser: a report is generated or a stored run   *)
(* is viewed, and its rows are drawn page by page.  A render waits for a   *)
(* frame, and between the chunks of a long page; whatever the user does    *)
(* meanwhile starts a newer render, which the older one has to notice.     *)
(***************************************************************************)
EXTENDS Integers, Sequences, FiniteSets, SequencesExt

CONSTANTS
    Reports,     \* answers of the server: [id, rows], rows being how many
    PageSizes,   \* sizes of a page besides all rows at once
    Large,       \* a page with more rows is drawn in chunks (500)
    Chunk,       \* rows of a chunk (200)
    MaxRenders   \* bound: renders that wait at once

ASSUME ReportViewAssumption ==
    /\ \A r \in Reports : r.rows \in Nat
    /\ PageSizes \subseteq 1..Large /\ Large \in Nat /\ Chunk \in 1..Large /\ MaxRenders \in Nat

NoRows == [id |-> 0, rows |-> 0]
NoPager == [buttons |-> <<>>, current |-> 0, last |-> 0]

VARIABLES
    reportData,   \* _reportData
    reportPage, reportPageSize, sortDir,
    tableShown, tableBody,   \* rows on screen: <<report, direction, index>>
    pager,        \* reportPagination
    smallScreen,
    renders,      \* calls of _renderReport that wait
    generating,   \* generateReport: "no", "asked", "rendering"; the button is disabled
    viewingRun, runAsked

reportViewVars == <<reportData, reportPage, reportPageSize, sortDir, tableShown, tableBody, pager,
                    smallScreen, renders, generating, viewingRun, runAsked>>
settings == <<smallScreen, generating, viewingRun, runAsked>>

All == 0
IsAll == reportPageSize = All
Pages(n) == IF IsAll \/ n = 0 THEN 1 ELSE (n + reportPageSize - 1) \div reportPageSize
Clamped(p, n) == IF p > Pages(n) THEN Pages(n) ELSE IF p < 1 THEN 1 ELSE p
FirstRow(p) == IF IsAll THEN 1 ELSE (p - 1) * reportPageSize + 1
LastRow(p, n) == IF IsAll \/ p * reportPageSize > n THEN n ELSE p * reportPageSize
RowsOf(report, dir, from, to) == [i \in 1..(to - from + 1) |-> <<report.id, dir, from + i - 1>>]

\* _getPageNumbers; 0 is the ellipsis.
UpTo(from, to) == [i \in 1..(to - from + 1) |-> from + i - 1]
SmallButtons(p, n) ==
    IF n <= 5 THEN UpTo(1, n)
    ELSE IF p <= 3 THEN <<1, 2, 3, 0, n>>
    ELSE IF p >= n - 2 THEN <<1, 0>> \o UpTo(n - 2, n)
    ELSE <<1, 0, p, 0, n>>
WideButtons(p, n) ==
    IF n <= 9 THEN UpTo(1, n)
    ELSE IF p <= 5 THEN UpTo(1, 6) \o <<0, n>>
    ELSE IF p >= n - 4 THEN <<1, 0>> \o UpTo(n - 5, n)
    ELSE <<1, 0>> \o UpTo(p - 2, p + 2) \o <<0, n>>

\* _renderPaginationControls, which clamps the page once more.
PagerDrawn(p, n, small) ==
    /\ reportPage' = IF n = 0 THEN p ELSE Clamped(p, n)
    /\ pager' = IF n = 0 THEN NoPager
                ELSE [buttons |-> IF Pages(n) = 1 THEN <<>>
                                  ELSE IF small THEN SmallButtons(Clamped(p, n), Pages(n))
                                  ELSE WideButtons(Clamped(p, n), Pages(n)),
                      current |-> Clamped(p, n), last |-> Pages(n)]

ReportViewTypeOK ==
    /\ reportData \in Reports \cup {NoRows} /\ reportPage \in Nat \ {0}
    /\ reportPageSize \in PageSizes \cup {All} /\ sortDir \in {-1, 1}
    /\ {tableShown, smallScreen, viewingRun, runAsked} \subseteq BOOLEAN
    /\ generating \in {"no", "asked", "rendering"}
    /\ \A r \in renders : r.stage \in {"frame", "chunk"} /\ r.live \in BOOLEAN

ReportViewInit ==
    /\ reportData = NoRows /\ reportPage = 1 /\ reportPageSize \in PageSizes /\ sortDir = 1
    /\ tableShown = FALSE /\ tableBody = <<>> /\ pager = NoPager /\ smallScreen \in BOOLEAN
    /\ renders = {} /\ generating = "no" /\ viewingRun = FALSE /\ runAsked = FALSE

Superseded == {[r EXCEPT !.live = FALSE] : r \in renders}

\* _renderReport up to its first await: without rows it only hides what is shown.
RenderBegun(data) ==
    IF data.rows = 0
    THEN renders' = Superseded /\ tableShown' = FALSE /\ pager' = NoPager
    ELSE /\ renders' = Superseded \cup {[stage |-> "frame", live |-> TRUE, rows |-> <<>>, total |-> 0]}
         /\ UNCHANGED <<tableShown, pager>>

\* The frame: the head is drawn, and the page, of a large one its first chunk.
FrameArrives(r) ==
    LET n == reportData.rows
        p == Clamped(reportPage, n)
        rows == RowsOf(reportData, sortDir, FirstRow(p), LastRow(p, n))
        large == Len(rows) > Large
    IN /\ r.stage = "frame" /\ r.live
       /\ tableShown' = TRUE /\ tableBody' = IF large THEN SubSeq(rows, 1, Chunk) ELSE rows
       /\ IF large
          THEN /\ renders' = (renders \ {r}) \cup
                   {[r EXCEPT !.stage = "chunk", !.rows = SubSeq(rows, Chunk + 1, Len(rows)), !.total = n]}
               /\ reportPage' = p /\ UNCHANGED pager
          ELSE renders' = renders \ {r} /\ PagerDrawn(p, n, smallScreen)
       /\ UNCHANGED <<reportData, reportPageSize, sortDir, settings>>

\* The next chunk of a large page, or its end.
ChunkDrawnAnyway(r) ==
    /\ r.stage = "chunk"
    /\ IF r.rows = <<>>
       THEN renders' = renders \ {r} /\ PagerDrawn(reportPage, r.total, smallScreen) /\ UNCHANGED tableBody
       ELSE LET k == IF Len(r.rows) < Chunk THEN Len(r.rows) ELSE Chunk
            IN /\ tableBody' = tableBody \o SubSeq(r.rows, 1, k)
               /\ renders' = (renders \ {r}) \cup {[r EXCEPT !.rows = SubSeq(r.rows, k + 1, Len(r.rows))]}
               /\ UNCHANGED <<reportPage, pager>>
    /\ UNCHANGED <<reportData, reportPageSize, sortDir, tableShown, settings>>
ChunkDrawn(r) ==
    /\ r.stage = "chunk" /\ r.live
    /\ IF r.rows = <<>>
       THEN renders' = renders \ {r} /\ PagerDrawn(reportPage, r.total, smallScreen) /\ UNCHANGED tableBody
       ELSE LET k == IF Len(r.rows) < Chunk THEN Len(r.rows) ELSE Chunk
            IN /\ tableBody' = tableBody \o SubSeq(r.rows, 1, k)
               /\ renders' = (renders \ {r}) \cup {[r EXCEPT !.rows = SubSeq(r.rows, k + 1, Len(r.rows))]}
               /\ UNCHANGED <<reportPage, pager>>
    /\ UNCHANGED <<reportData, reportPageSize, sortDir, tableShown, settings>>
RenderGivenUp(r) ==
    /\ ~r.live /\ renders' = renders \ {r}
    /\ UNCHANGED <<reportData, reportPage, reportPageSize, sortDir, tableShown, tableBody, pager, settings>>

\* setReportPage from a button on screen, changeReportPageSize and sortReport.
SetReportPage ==
    /\ \E p \in ToSet(pager.buttons) \cup {pager.current - 1, pager.current + 1} :
           p \in 1..pager.last /\ pager.last > 1 /\ p # pager.current /\ reportPage' = p
    /\ RenderBegun(reportData)
    /\ UNCHANGED <<reportData, reportPageSize, sortDir, tableBody, settings>>
ChangePageSize ==
    /\ pager # NoPager
    /\ reportPageSize' \in (PageSizes \cup {All}) \ {reportPageSize} /\ reportPage' = 1
    /\ RenderBegun(reportData)
    /\ UNCHANGED <<reportData, sortDir, tableBody, settings>>
SortReport ==
    /\ tableShown /\ sortDir' = -sortDir /\ RenderBegun(reportData)
    /\ UNCHANGED <<reportData, reportPage, reportPageSize, tableBody, settings>>

\* 150 ms after the window was resized.
Resized ==
    /\ smallScreen' = ~smallScreen
    /\ IF pager # NoPager /\ reportData.rows > 0 THEN PagerDrawn(reportPage, reportData.rows, smallScreen')
       ELSE UNCHANGED <<reportPage, pager>>
    /\ UNCHANGED <<reportData, reportPageSize, sortDir, tableShown, tableBody, renders, generating,
                   viewingRun, runAsked>>

\* onReportTypeChange and onReportControlChange: a render that waits is not stopped.
ResetReport ==
    /\ ~viewingRun
    /\ reportData' = NoRows /\ reportPage' = 1 /\ tableShown' = FALSE /\ pager' = NoPager
    /\ UNCHANGED <<reportPageSize, sortDir, tableBody, renders, settings>>

GenerateReport ==
    /\ ~viewingRun /\ generating = "no" /\ generating' = "asked"
    /\ tableShown' = FALSE /\ pager' = NoPager
    /\ UNCHANGED <<reportData, reportPage, reportPageSize, sortDir, tableBody, smallScreen, renders,
                   viewingRun, runAsked>>
\* The answer, drawn whatever the page shows by now; a refused one changes nothing.
ReportTaken(report) ==
    /\ reportData' = report /\ sortDir' = 1 /\ reportPage' = 1
    /\ RenderBegun(report)
ReportArrives ==
    /\ generating = "asked"
    /\ \/ \E report \in Reports : ReportTaken(report) /\ generating' = "rendering"
       \/ generating' = "no" /\ UNCHANGED <<reportData, sortDir, reportPage, renders, tableShown, pager>>
    /\ UNCHANGED <<reportPageSize, tableBody, smallScreen, viewingRun, runAsked>>
\* The render it waits for has ended: the button is enabled.
GenerateEnds ==
    /\ generating = "rendering" /\ (\A r \in renders : ~r.live) /\ generating' = "no"
    /\ UNCHANGED <<reportData, reportPage, reportPageSize, sortDir, tableShown, tableBody, pager,
                   smallScreen, renders, viewingRun, runAsked>>

\* viewRun, its answer and exitRunView, which stops no render either.
ViewRun ==
    /\ ~runAsked /\ ~viewingRun /\ runAsked' = TRUE
    /\ UNCHANGED <<reportData, reportPage, reportPageSize, sortDir, tableShown, tableBody, pager,
                   smallScreen, renders, generating, viewingRun>>
RunArrives ==
    /\ runAsked /\ runAsked' = FALSE
    /\ \/ \E report \in Reports : ReportTaken(report) /\ viewingRun' = TRUE
       \/ UNCHANGED <<reportData, sortDir, reportPage, renders, tableShown, pager, viewingRun>>
    /\ UNCHANGED <<reportPageSize, tableBody, smallScreen, generating>>
ExitRunView ==
    /\ viewingRun /\ viewingRun' = FALSE
    /\ reportData' = NoRows /\ reportPage' = 1 /\ tableShown' = FALSE /\ pager' = NoPager
    /\ UNCHANGED <<reportPageSize, sortDir, tableBody, renders, smallScreen, generating, runAsked>>

ReportViewNext ==
    \/ \E r \in renders : FrameArrives(r) \/ ChunkDrawn(r) \/ RenderGivenUp(r)
    \/ Cardinality(renders) < MaxRenders /\
         (SetReportPage \/ ChangePageSize \/ SortReport \/ ReportArrives \/ RunArrives)
    \/ Resized \/ ResetReport \/ GenerateReport \/ GenerateEnds \/ ViewRun \/ ExitRunView

-----------------------------------------------------------------------------
\* With no render under way, the table on screen holds exactly the rows of the current page,
\* size and order of the current report, whichever renders were overtaken before.
TableShowsThePage ==
    tableShown /\ renders = {} =>
        LET n == reportData.rows
        IN tableBody = RowsOf(reportData, sortDir, FirstRow(reportPage), LastRow(reportPage, n))

\* While chunks are drawn the rows are those of one render in their order: no row of an
\* overtaken render is among them and none comes twice.
RowsOfOneRender ==
    \A i \in 1..(Len(tableBody) - 1) :
        /\ tableBody[i][1] = tableBody[i + 1][1] /\ tableBody[i][2] = tableBody[i + 1][2]
        /\ tableBody[i][3] + 1 = tableBody[i + 1][3]

\* _getPageNumbers: the buttons rise from the first page to the last over the current one,
\* without a gap except where an ellipsis stands for at least one page.
ButtonsReachEveryPage ==
    LET b == pager.buttons IN
    b # <<>> =>
        /\ b[1] = 1 /\ b[Len(b)] = pager.last /\ pager.current \in ToSet(b)
        /\ \A i \in 1..(Len(b) - 1) : b[i] # 0 =>
               IF b[i + 1] # 0 THEN b[i + 1] = b[i] + 1 ELSE b[i + 2] > b[i] + 1

ReportViewSound == TableShowsThePage /\ RowsOfOneRender /\ ButtonsReachEveryPage
=============================================================================
