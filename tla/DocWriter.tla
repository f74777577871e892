----------------------------- MODULE DocWriter -----------------------------
(***************************************************************************)
(* gdocs_write of the google-docs plugin (plugins/google-docs/tools.go):   *)
(* markdown becomes segments, segments become requests whose positions are *)
(* computed ahead of what the requests do, and several BatchUpdate calls   *)
(* build one text: text up to a table, the empty table, the next text, the *)
(* links to headings, and last the cells, backwards.                       *)
(*                                                                         *)
(* A document is a sequence of units, the n-th at index n: characters,     *)
(* chips, and the marks of a table's structure.  A paragraph's style sits  *)
(* on its newline.  What a request does to a document is the API's         *)
(* (external).  A line of markdown comes with its inline formatting        *)
(* already split into spans [text, style, anchor, chip].                   *)
(***************************************************************************)
EXTENDS Integers, Sequences, FiniteSets, SequencesExt

CONSTANTS
  Markdowns,      \* sequences of lines
  StartDocs,      \* documents to write to
  MaxCellReqs     \* maxCellReqsPerBatch

(* What the parsers deliver: an anchor is on text within a line, not on a  *)
(* code block or a chip; a table has a row, and its rows have one length.  *)
(* A document ends with a newline.                                         *)
Units == [g : STRING, style : STRING, link : STRING, para : STRING, list : STRING, depth : Nat]
Spans == [text : Seq(STRING), style : STRING, anchor : STRING, chip : STRING]
Lines == [kind : {"body", "blank", "head", "list", "code", "rule", "table"}, spans : Seq(Spans),
          list : STRING, depth : Nat, rows : Seq(Seq(Seq(Spans)))]
Parsed(l) ==
  /\ l \in Lines
  /\ l.list # "none" <=> l.kind = "list"
  /\ \A k \in DOMAIN l.spans : l.spans[k].anchor # "none" =>
       /\ l.kind # "code" /\ l.spans[k].chip = "none"
       /\ \A i \in DOMAIN l.spans[k].text : l.spans[k].text[i] # "nl"
  /\ l.kind = "code" => Len(l.spans) = 1 /\ l.spans[1].chip = "none"
  /\ l.kind = "table" =>
       l.rows # <<>> /\ \A r \in DOMAIN l.rows : Len(l.rows[r]) = Len(l.rows[1])
ASSUME DocAssumption ==
  /\ \A md \in Markdowns : md \in Seq(Lines) /\ md # <<>> /\ \A i \in DOMAIN md : Parsed(md[i])
  /\ \A d \in StartDocs : d \in Seq(Units) /\ d # <<>> /\ d[Len(d)].g = "nl"
  /\ MaxCellReqs \in Nat

VARIABLES
  doc,            \* the document, kept by the service
  old, lines,     \* as they were when the write began
  job
docVars == <<doc, old, lines, job>>

Structure == {"table", "row", "cell", "end"}
Unit(g, s) == [g |-> g, style |-> s, link |-> "none",
               para |-> "none", list |-> "none", depth |-> 0]
Newline(p, s) == [Unit("nl", s) EXCEPT !.para = p]
(* A result built in n steps, the k-th from what the one before it made.   *)
Steps(op(_, _), start, n) ==
  LET made[k \in 0 .. n] == IF k = 0 THEN start ELSE op(made[k - 1], k) IN made[n]

-----------------------------------------------------------------------------
(* The document service: one request after the other *)

EndOf(d, i) == CHOOSE j \in i .. Len(d) :
  d[j].g = "nl" /\ \A k \in i .. j - 1 : d[k].g # "nl"
StartOf(d, i) == CHOOSE j \in 1 .. i :
  /\ \A k \in j .. i - 1 : d[k].g \notin Structure \cup {"nl"}
  /\ j = 1 \/ d[j - 1].g \in Structure \cup {"nl"}
InsertUnits(d, i, us) == SubSeq(d, 1, i - 1) \o us \o SubSeq(d, i, Len(d))
(* New text looks like the text before it, a new paragraph like the one it *)
(* is inserted into.                                                       *)
StyleAt(d, i) == IF StartOf(d, i) < i THEN d[i - 1].style ELSE d[i].style
Inserted(d, i, text) ==
  [k \in DOMAIN text |->
     IF text[k] = "nl" THEN [d[EndOf(d, i)] EXCEPT !.style = StyleAt(d, i)]
     ELSE Unit(text[k], StyleAt(d, i))]
EmptyTable(rows, cols) ==
  LET row == <<Unit("row", "plain")>>
               \o FlattenSeq([c \in 1 .. cols |->
                    <<Unit("cell", "plain"), Newline("normal", "plain")>>])
  IN <<Unit("table", "plain")>> \o FlattenSeq([r \in 1 .. rows |-> row])
       \o <<Unit("end", "plain")>>
(* A named style leaves the border of a rule. *)
Restyled(was, para) == IF was = "rule" /\ para = "normal" THEN was ELSE para
Touches(d, i, q) ==
  d[i].g = "nl" /\ StartOf(d, i) < q.to /\ q.from <= i
LeadingTab(d, i) ==
  d[i].g = "tab" /\ \A k \in StartOf(d, i) .. i : d[k].g = "tab"
LeadingTabs(d, i) == Cardinality({k \in StartOf(d, i) .. i : LeadingTab(d, k)})
Without(d, gone) ==
  LET stay == DOMAIN d \ gone
      nth(k) == CHOOSE i \in stay : Cardinality({j \in stay : j <= i}) = k
  IN [k \in 1 .. Cardinality(stay) |-> d[nth(k)]]
Bulleted(d, q) ==
  Without([i \in DOMAIN d |-> IF Touches(d, i, q)
             THEN [d[i] EXCEPT !.list = q.list, !.depth = LeadingTabs(d, i)] ELSE d[i]],
          {i \in DOMAIN d : LeadingTab(d, i) /\ Touches(d, EndOf(d, i), q)})

Apply(d, q) ==
  CASE q.op = "text" -> InsertUnits(d, q.at, Inserted(d, q.at, q.text))
    [] q.op = "chip" -> InsertUnits(d, q.at, <<Unit(q.chip, StyleAt(d, q.at))>>)
    [] q.op = "table" ->
         InsertUnits(d, q.at, Inserted(d, q.at, <<"nl">>) \o EmptyTable(q.rows, q.cols))
    [] q.op = "delete" -> SubSeq(d, 1, q.from - 1) \o SubSeq(d, q.to, Len(d))
    [] q.op = "style" -> [i \in DOMAIN d |->
         IF i \in q.from .. q.to - 1 THEN [d[i] EXCEPT !.style = q.style] ELSE d[i]]
    [] q.op = "link" -> [i \in DOMAIN d |->
         IF i \in q.from .. q.to - 1 THEN [d[i] EXCEPT !.link = q.link] ELSE d[i]]
    [] q.op = "para" -> [i \in DOMAIN d |->
         IF Touches(d, i, q) THEN [d[i] EXCEPT !.para = Restyled(@, q.para)] ELSE d[i]]
    [] q.op = "bullets" -> Bulleted(d, q)
BatchUpdate(d, reqs) == Steps(LAMBDA e, k : Apply(e, reqs[k]), d, Len(reqs))

TextReq(i, t) == [op |-> "text", at |-> i, text |-> t]
StyleReq(i, j, s) == [op |-> "style", from |-> i, to |-> j, style |-> s]
ParaReq(i, j, p) == [op |-> "para", from |-> i, to |-> j, para |-> p]

-----------------------------------------------------------------------------
(* parseMarkdown *)

Segment(span, kind) ==
  [text |-> span.text, style |-> span.style, anchor |-> span.anchor, chip |-> span.chip,
   kind |-> kind, heading |-> 0, list |-> "none", depth |-> 0, rows |-> <<>>]
PlainSpan(t) == [text |-> t, style |-> "plain", anchor |-> "none", chip |-> "none"]
(* parseSimpleFormatting of the text of `spans` and a newline. *)
Terminated(spans) == spans \o <<PlainSpan(<<"nl">>)>>
Segments(spans) == [k \in DOMAIN spans |-> Segment(spans[k], "text")]

FlushBody(s) ==
  [s EXCEPT !.body = <<>>,
            !.segs = @ \o IF s.body = <<>> THEN <<>> ELSE Segments(Terminated(s.body))]
AddLine(s, l) ==
  LET f == FlushBody(s)
      add(segs, head) == [f EXCEPT !.segs = @ \o segs, !.wasHeading = head]
  IN CASE l.kind = "body" ->
            [s EXCEPT !.wasHeading = FALSE,
               !.body = @ \o (IF @ = <<>> THEN <<>> ELSE <<PlainSpan(<<"sp">>)>>) \o l.spans]
       [] l.kind = "blank" ->
            IF s.wasHeading THEN f ELSE add(Segments(Terminated(<<>>)), FALSE)
       [] l.kind = "head" ->
            [add([k \in DOMAIN l.spans |->
                    [Segment(l.spans[k], "text") EXCEPT !.heading = s.next]], TRUE)
               EXCEPT !.next = @ + 1]
       [] l.kind = "list" ->
            add([k \in DOMAIN Terminated(l.spans) |->
                   [Segment(Terminated(l.spans)[k], "text")
                      EXCEPT !.list = l.list, !.depth = l.depth]], FALSE)
       [] l.kind = "code" -> add(<<[Segment(l.spans[1], "code") EXCEPT !.text = Append(@, "nl")]>>, FALSE)
       [] l.kind = "rule" -> add(<<Segment(PlainSpan(<<>>), "rule")>>, FALSE)
       [] l.kind = "table" ->
            add(<<[Segment(PlainSpan(<<>>), "table") EXCEPT !.rows = l.rows]>>, s.wasHeading)
NothingParsed == [segs |-> <<>>, body |-> <<>>, wasHeading |-> FALSE, next |-> 1]
parseMarkdown(ls) ==
  FlushBody(Steps(LAMBDA s, k : AddLine(s, ls[k]), NothingParsed, Len(ls))).segs

(* mergeSegments: neighbours that differ in their text only are one. *)
Mergeable(a, b) ==
  /\ [a EXCEPT !.text = <<>>] = [b EXCEPT !.text = <<>>]
  /\ a.chip = "none" /\ a.kind \in {"text", "code"}
Merge(done, s) ==
  IF done # <<>> /\ Mergeable(Last(done), s) THEN [done EXCEPT ![Len(done)].text = @ \o s.text]
  ELSE Append(done, s)
mergeSegments(segs) == Steps(LAMBDA done, k : Merge(done, segs[k]), <<>>, Len(segs))

-----------------------------------------------------------------------------
(* convertMarkdownToRequests: c is its local state.  cur counts the tabs   *)
(* that the bullets, created last, will take away.                         *)

Start(at) ==
  [reqs |-> <<>>, cur |-> at, tabs |-> 0, anchors |-> <<>>, listAt |-> 0, listKind |-> "none",
   ranges |-> <<>>, late |-> <<>>, inHeading |-> FALSE, reset |-> TRUE]
Emit(c, reqs) == [c EXCEPT !.reqs = @ \o reqs]
CloseList(c) ==
  IF c.listAt = 0 THEN c
  ELSE [c EXCEPT !.listAt = 0,
          !.ranges = Append(@, [op |-> "bullets", from |-> c.listAt, to |-> c.cur,
                                list |-> c.listKind])]
ParagraphStyle(seg) == IF seg.heading > 0 THEN "heading" ELSE "normal"
EndsLine(text) == text # <<>> /\ Last(text) = "nl"

HorizontalRule(c) ==
  [Emit(CloseList(c), <<TextReq(c.cur, <<"nl">>), ParaReq(c.cur, c.cur + 1, "rule")>>)
     EXCEPT !.cur = @ + 1]
CodeBlock(c, seg, last) ==
  LET text == IF last \/ EndsLine(seg.text) THEN seg.text ELSE Append(seg.text, "nl")
      end == c.cur + Len(text)
  IN [Emit(CloseList(c), <<TextReq(c.cur, text), ParaReq(c.cur, end, "normal"),
                           StyleReq(c.cur, end, "mono")>>) EXCEPT !.cur = end]

(* A date gets its paragraph from a placeholder. *)
Chip(c, seg) ==
  LET placed == IF seg.chip = "date"
                THEN <<TextReq(c.cur, <<"sp">>),
                       [op |-> "delete", from |-> c.cur, to |-> c.cur + 1]>>
                ELSE <<>>
      styled == IF seg.style = "plain" THEN <<>>
                ELSE <<StyleReq(c.cur, c.cur + 1, seg.style)>>
  IN [Emit(CloseList(c), placed \o <<[op |-> "chip", at |-> c.cur, chip |-> seg.chip],
                           ParaReq(c.cur, c.cur + 1, ParagraphStyle(seg))>> \o styled)
        EXCEPT !.cur = @ + 1]

(* An item of another kind starts a new list only at the top level. *)
TrackList(c, seg) ==
  IF seg.list = "none" THEN CloseList(c)
  ELSE IF c.listAt = 0 THEN [c EXCEPT !.listAt = c.cur, !.listKind = seg.list]
  ELSE IF seg.list # c.listKind /\ seg.depth = 0
       THEN [CloseList(c) EXCEPT !.listAt = c.cur, !.listKind = seg.list]
  ELSE c
Continues(segs, i) ==
  /\ i > 1 /\ segs[i - 1].list # "none" /\ segs[i - 1].depth = segs[i].depth
  /\ ~EndsLine(segs[i - 1].text)
Indented(segs, i) ==
  LET text == segs[i].text
      begins(k) == text[k] # "nl" /\ IF k = 1 THEN ~Continues(segs, i) ELSE text[k - 1] = "nl"
      tabs == [n \in 1 .. segs[i].depth |-> "tab"]
  IN IF segs[i].list = "none" THEN text
     ELSE FlattenSeq([k \in DOMAIN text |->
            (IF begins(k) THEN tabs ELSE <<>>) \o <<text[k]>>])
EndsHeading(segs, i) ==
  segs[i].heading > 0 /\ (i = Len(segs) \/ segs[i + 1].heading # segs[i].heading)

TextOf(segs, i) ==
  LET text == Indented(segs, i)
  IN IF EndsHeading(segs, i) /\ i < Len(segs) /\ ~EndsLine(text) THEN Append(text, "nl") ELSE text

Anchored(k, seg, end, tabs) ==
  IF seg.anchor = "none" THEN k.anchors
  ELSE Append(k.anchors, [from |-> k.cur, to |-> end, tabs |-> tabs, slug |-> seg.anchor])
IsNormal(k, seg) == seg.heading = 0 /\ ~k.inHeading /\ k.reset
Styled(k, seg, end) == Append(k.late, StyleReq(k.cur, end, seg.style))
(* The styles of a heading come after its last paragraph style. *)
TextStyles(k, segs, i, end) ==
  LET seg == segs[i]
      paragraph == IF IsNormal(k, seg) THEN <<ParaReq(k.cur, end, "normal")>> ELSE <<>>
      styles == IF EndsHeading(segs, i)
                THEN <<ParaReq(k.cur, end, "heading")>> \o Styled(k, seg, end)
                ELSE IF k.inHeading THEN <<>> ELSE Styled(k, seg, end)
  IN paragraph \o styles
Text(c, segs, i) ==
  LET seg == segs[i]
      k == TrackList(c, seg)
      text == TextOf(segs, i)
      end == k.cur + Len(text)
      tabs == k.tabs + Len(Indented(segs, i)) - Len(seg.text)
  IN [Emit(k, <<TextReq(k.cur, text)>> \o TextStyles(k, segs, i, end))
        EXCEPT !.cur = end, !.tabs = tabs, !.anchors = Anchored(k, seg, end, tabs),
               !.late = IF k.inHeading /\ ~EndsHeading(segs, i) THEN Styled(k, seg, end) ELSE <<>>,
               !.inHeading = @ /\ ~EndsHeading(segs, i),
               !.reset = \/ EndsHeading(segs, i)
                         \/ (seg.heading = 0 /\ EndsLine(text))
                         \/ (@ /\ ~IsNormal(k, seg))]

ConvertSegment(segs, c0, i) ==
  LET seg == segs[i]
      new == seg.heading > 0 /\ (i = 1 \/ segs[i - 1].heading # seg.heading)
      c == IF new THEN [c0 EXCEPT !.inHeading = TRUE, !.late = <<>>] ELSE c0
  IN CASE seg.kind = "rule" -> HorizontalRule(c0)
       [] seg.kind # "rule" /\ seg.text = <<>> /\ seg.chip = "none" -> c0
       [] seg.kind = "code" /\ seg.text # <<>> -> CodeBlock(c0, seg, i = Len(segs))
       [] seg.kind = "text" /\ seg.chip # "none" -> Chip(c, seg)
       [] OTHER -> Text(c, segs, i)

(* The last text loses its newline: the document has one there. *)
Stripped(segs) ==
  LET texts == {i \in DOMAIN segs : segs[i].text # <<>> /\ segs[i].chip = "none"}
      last == CHOOSE i \in texts : \A j \in texts : j <= i
  IN IF texts = {} \/ ~EndsLine(segs[last].text) THEN segs
     ELSE [segs EXCEPT ![last].text = Front(@)]

(* The position returned is the one after the bullets. *)
FinalIndex(c) == c.cur - c.tabs
convertMarkdownToRequests(parsed, at, strip) ==
  LET merged == mergeSegments(parsed)
      segs == IF strip THEN Stripped(merged) ELSE merged
      c == CloseList(Steps(LAMBDA k, i : ConvertSegment(segs, k, i), Start(at), Len(segs)))
  IN [reqs |-> c.reqs \o c.ranges, final |-> FinalIndex(c), anchors |-> c.anchors]

-----------------------------------------------------------------------------
(* Tables *)

(* populateTableCell: plain text is given no style of its own. *)
PutSpan(c, s) ==
  LET size == IF s.chip = "none" THEN Len(s.text) ELSE 1
      put == IF s.chip = "none" THEN TextReq(c.cur, s.text)
             ELSE [op |-> "chip", at |-> c.cur, chip |-> s.chip]
      styled == IF s.style = "plain" THEN <<>>
                ELSE <<StyleReq(c.cur, c.cur + size, s.style)>>
  IN IF size = 0 THEN c
     ELSE [cur |-> c.cur + size, reqs |-> c.reqs \o <<put>> \o styled]
populateTableCell(spans, at) ==
  Steps(LAMBDA c, k : PutSpan(c, spans[k]), [cur |-> at, reqs |-> <<>>], Len(spans)).reqs
(* collectTableCellRequests: the last cell first, its start as read when   *)
(* the table was made; a cell without requests is left out.                *)
CellGroup(table, row, col) ==
  LET reqs == populateTableCell(mergeSegments(Segments(table.rows[row][col])),
                                table.cells[row][col])
  IN IF reqs = <<>> THEN <<>> ELSE <<reqs>>
collectTableCellRequests(table) ==
  FlattenSeq([r \in DOMAIN table.rows |-> LET row == Len(table.rows) + 1 - r IN
    FlattenSeq([c \in DOMAIN table.rows[row] |->
      CellGroup(table, row, Len(table.rows[row]) + 1 - c)])])

(* buildCellBatches: the last table first, no cell in two batches. *)
(* Mutant of TablesInOrder: the first table first. *)
TablesInOrderForward(tables) == tables
TablesInOrder(tables) == Reverse(tables)
Pack(done, g) ==
  IF done # <<>> /\ Len(Last(done)) + Len(g) <= MaxCellReqs
  THEN [done EXCEPT ![Len(done)] = @ \o g] ELSE Append(done, g)
buildCellBatches(tables) ==
  LET groups == FlattenSeq([t \in DOMAIN tables |->
                              collectTableCellRequests(TablesInOrder(tables)[t])])
  IN Steps(LAMBDA done, k : Pack(done, groups[k]), <<>>, Len(groups))

(* The cells of the first table from index `at` on: where each begins. *)
TableFrom(at) == CHOOSE i \in at .. Len(doc) :
  doc[i].g = "table" /\ \A j \in at .. i - 1 : doc[j].g # "table"
CellStarts(i, rows, cols) ==
  [r \in 1 .. rows |-> [c \in 1 .. cols |-> i + (r - 1) * (1 + 2 * cols) + 2 * c + 1]]

-----------------------------------------------------------------------------
(* toolWrite and insertMarkdownWithTables *)

NoJob == [pc |-> "idle", segs |-> <<>>, at |-> 0, cur |-> 0, tables |-> <<>>,
          anchors |-> <<>>, batches |-> <<>>, made |-> 0]
DocInit ==
  /\ doc \in StartDocs /\ old = doc /\ lines = <<>> /\ job = NoJob

(* Appending to a document that has text starts with a line break, unless  *)
(* the markdown does; empty text is refused.                               *)
BlankLine == [kind |-> "blank", spans |-> <<>>, list |-> "none", depth |-> 0, rows |-> <<>>]
(* Mutant of Breaks: the text goes on in the last paragraph. *)
BreaksNever(md, at) == FALSE
Breaks(md, at) == at > 1 /\ md[1].kind # "blank"
toolWrite ==
  /\ job.pc = "idle"
  /\ \E md \in Markdowns \ {<<BlankLine>>} :
       LET at == Len(doc)
       IN /\ lines' = md
          /\ job' = [NoJob EXCEPT !.pc = "next", !.at = at, !.cur = at,
               !.segs = parseMarkdown(IF Breaks(md, at) THEN <<BlankLine>> \o md ELSE md)]
  /\ UNCHANGED <<doc, old>>

NextTable ==
  LET tables == {i \in DOMAIN job.segs : job.segs[i].kind = "table"}
  IN IF tables = {} THEN 0 ELSE CHOOSE i \in tables : \A j \in tables : i <= j
FlushBefore ==
  /\ job.pc = "next" /\ NextTable > 1
  /\ LET made == convertMarkdownToRequests(SubSeq(job.segs, 1, NextTable - 1), job.cur, FALSE)
     IN /\ doc' = BatchUpdate(doc, made.reqs)
        /\ job' = [job EXCEPT !.segs = SubSeq(@, NextTable, Len(@)), !.cur = made.final,
                              !.anchors = @ \o made.anchors]
  /\ UNCHANGED <<old, lines>>
CreateTable ==
  /\ job.pc = "next" /\ NextTable = 1
  /\ LET rows == job.segs[1].rows
     IN doc' = BatchUpdate(doc, <<[op |-> "table", at |-> job.cur, rows |-> Len(rows),
                                   cols |-> Len(rows[1])]>>)
  /\ job' = [job EXCEPT !.pc = "find"]
  /\ UNCHANGED <<old, lines>>
FindTable ==
  /\ job.pc = "find" /\ \E i \in job.cur .. Len(doc) : doc[i].g = "table"
  /\ LET rows == job.segs[1].rows
         i == TableFrom(job.cur)
         cells == CellStarts(i, Len(rows), Len(rows[1]))
         size == Len(EmptyTable(Len(rows), Len(rows[1])))
     IN job' = [job EXCEPT !.pc = "next", !.segs = Tail(@), !.cur = i + size,
                           !.tables = Append(@, [rows |-> rows, cells |-> cells])]
  /\ UNCHANGED <<doc, old, lines>>
FlushRest ==
  /\ job.pc = "next" /\ NextTable = 0
  /\ LET made == convertMarkdownToRequests(job.segs, job.cur, TRUE)
     IN /\ doc' = BatchUpdate(doc, made.reqs)
        /\ job' = [job EXCEPT !.pc = "anchors", !.segs = <<>>, !.anchors = @ \o made.anchors]
  /\ UNCHANGED <<old, lines>>

(* A slug is the text of its heading; unknown ones are a warning. *)
HeadingText(d, i) == [k \in 1 .. i - StartOf(d, i) |-> d[StartOf(d, i) + k - 1].g]
Slugs(d) == {HeadingText(d, i) : i \in {j \in DOMAIN d : d[j].g = "nl" /\ d[j].para = "heading"}}
AnchorRange(a) ==
  [op |-> "link", from |-> a.from - a.tabs, to |-> a.to - a.tabs, link |-> a.slug]
resolveAnchorLinks ==
  /\ job.pc = "anchors"
  /\ LET links(a) == IF <<a.slug>> \in Slugs(doc) THEN <<AnchorRange(a)>> ELSE <<>>
     IN doc' = BatchUpdate(doc, FlattenSeq([k \in DOMAIN job.anchors |-> links(job.anchors[k])]))
  /\ job' = [job EXCEPT !.pc = "cells", !.batches = buildCellBatches(job.tables)]
  /\ UNCHANGED <<old, lines>>

PopulateCells ==
  /\ job.pc = "cells" /\ job.batches # <<>>
  /\ doc' = BatchUpdate(doc, Head(job.batches))
  /\ job' = [job EXCEPT !.batches = Tail(@), !.made = @ + 1]
  /\ UNCHANGED <<old, lines>>
WriteReturns ==
  /\ job.pc = "cells" /\ job.batches = <<>>
  /\ job' = [job EXCEPT !.pc = "done"]
  /\ UNCHANGED <<doc, old, lines>>
(* A call that fails does nothing; only the links may go missing. *)
CallFails ==
  /\ job.pc \in {"next", "find", "anchors", "cells"} /\ (job.pc = "cells" => job.batches # <<>>)
  /\ job' = IF job.pc = "anchors"
            THEN [job EXCEPT !.pc = "cells", !.anchors = <<>>,
                             !.batches = buildCellBatches(job.tables)]
            ELSE [job EXCEPT !.pc = "failed"]
  /\ UNCHANGED <<doc, old, lines>>

DocNext ==
  \/ toolWrite \/ FlushBefore \/ CreateTable \/ FindTable \/ FlushRest
  \/ resolveAnchorLinks \/ PopulateCells \/ WriteReturns \/ CallFails
DocSpec == DocInit /\ [][DocNext]_docVars

-----------------------------------------------------------------------------
(* The text that the lines say, without any position *)

SpanUnits(s, linked) ==
  IF s.chip # "none" THEN <<Unit(s.chip, s.style)>>
  ELSE [k \in DOMAIN s.text |->
          [Unit(s.text[k], s.style) EXCEPT !.link = IF linked THEN s.anchor ELSE "none"]]
SpansUnits(spans, linked) ==
  FlattenSeq([k \in DOMAIN spans |-> SpanUnits(spans[k], linked)])
Headings == {l \in {lines[i] : i \in DOMAIN lines} : l.kind = "head"}
HasHeading(slug) == \E l \in Headings : FlattenSeq([k \in DOMAIN l.spans |-> l.spans[k].text]) = <<slug>>
LinkedUnits(l) ==
  FlattenSeq([k \in DOMAIN l.spans |->
                SpanUnits(l.spans[k], job.anchors # <<>> /\ HasHeading(l.spans[k].anchor))])
TableUnits(rows) ==
  <<Unit("table", "plain")>> \o
    FlattenSeq([r \in DOMAIN rows |-> <<Unit("row", "plain")>> \o
      FlattenSeq([c \in DOMAIN rows[r] |->
        <<Unit("cell", "plain")>> \o SpansUnits(rows[r][c], FALSE)
          \o <<Newline("normal", "plain")>>])]) \o <<Unit("end", "plain")>>
KindAt(i) == IF i \in DOMAIN lines THEN lines[i].kind ELSE "none"
AfterHeading(i) ==
  \E j \in 1 .. i - 1 : KindAt(j) = "head" /\ \A k \in j + 1 .. i - 1 : KindAt(k) \in {"blank", "table"}
(* A nested item is an item of the list around it. *)
ListKind(i) ==
  LET around == {j \in 1 .. i : \A k \in j .. i : KindAt(k) = "list"}
      tops == {j \in around : lines[j].depth = 0 \/ KindAt(j - 1) # "list"}
  IN lines[CHOOSE j \in tops : \A k \in tops : k <= j].list
LineUnits(i) ==
  LET l == lines[i] IN
    CASE l.kind = "body" ->
           (IF KindAt(i - 1) = "body" THEN <<Unit("sp", "plain")>> ELSE <<>>) \o LinkedUnits(l)
             \o IF KindAt(i + 1) = "body" THEN <<>> ELSE <<Newline("normal", "plain")>>
      [] l.kind = "blank" ->
           IF AfterHeading(i) THEN <<>> ELSE <<Newline("normal", "plain")>>
      [] l.kind = "head" -> LinkedUnits(l) \o <<Newline("heading", Last(l.spans).style)>>
      [] l.kind = "list" ->
           LinkedUnits(l) \o <<[Newline("normal", "plain")
                                  EXCEPT !.list = ListKind(i), !.depth = l.depth]>>
      [] l.kind = "code" -> SpansUnits(<<[l.spans[1] EXCEPT !.style = "mono"]>>, FALSE)
                              \o <<Newline("normal", "mono")>>
      [] l.kind = "rule" -> <<Newline("rule", "plain")>>
      [] l.kind = "table" ->   \* the newline before it may be the heading's
           (IF AfterHeading(i) THEN <<>> ELSE <<Newline("normal", "plain")>>) \o TableUnits(l.rows)
Said == FlattenSeq([i \in DOMAIN lines |-> LineUnits(i)])

(* A write that reports success has appended what the lines say, every     *)
(* character with its style, every link on its text, every list item with  *)
(* its bullet and level and no tab left, every cell's content in its cell  *)
(* (insertMarkdownWithTables).                                             *)
Paragraphs(d) == [i \in DOMAIN d |-> IF d[i].g = "nl" THEN [d[i] EXCEPT !.style = "plain"] ELSE d[i]]
Broken(d) ==
  Front(d) \o IF Len(d) > 1 /\ KindAt(1) # "blank" THEN <<Newline("normal", "plain")>> ELSE <<>>
Expected ==
  LET ended == Said # <<>> /\ Last(Said).g = "nl" /\ Last(Said).para # "rule"
  IN Broken(old) \o Said \o IF ended THEN <<>> ELSE <<old[Len(old)]>>
WrittenAsSaid == job.pc = "done" => Paragraphs(doc) = Paragraphs(Expected)

(* Whatever comes of a write, the text that was in the document is as it   *)
(* was: each position that convertMarkdownToRequests, buildCellBatches and *)
(* resolveAnchorLinks compute lies behind it when the request is carried   *)
(* out, and the line break that toolWrite starts with keeps the bullets of *)
(* a list from the tabs of the last old paragraph.                         *)
OldTextKept == SubSeq(doc, 1, Len(old) - 1) = SubSeq(old, 1, Len(old) - 1)

(* plugins/google-docs/context.md:206: "Nested items are rendered at the   *)
(* correct indentation level in Google Docs. The outer list numbering is   *)
(* preserved even when nested items of a different type appear inside."    *)
Items(d) ==
  LET ends == SelectSeq(d, LAMBDA u : u.g = "nl")
  IN [i \in DOMAIN ends |-> <<ends[i].list, ends[i].depth>>]
ListsAsDocumented ==
  job.pc = "done" => Items(doc) = Items(Expected)

=============================================================================
