--------------------------- MODULE DocumentsProofs ---------------------------
(***************************************************************************)
(* The layout of invoices and reports, for orders of any number of items.  *)
(*                                                                         *)
(* What a step draws depends on how far down the page the one before came, *)
(* so none of the four properties is inductive.  Layout says where the     *)
(* next block may start: not above the end of the page's header, and below *)
(* the last block by the ink that the next one has above its own position. *)
(***************************************************************************)
EXTENDS Documents, SequenceTheorems, TLAPS

Docs == {"none", "invoice", "report"}

Kinds == {"none", "head", "item", "totals", "band", "section", "row"}
Colours == {"ink", "white", "muted"}
Marks == [kind : Kinds, page : Nat, top : Int, low : Int, colour : Colours]

DocumentsTypes ==
    /\ doc \in Docs
    /\ left \in Nat /\ opened \in Nat /\ page \in Nat
    /\ colour \in Colours
    /\ y \in Int
    /\ tables \in Seq(SUBSET Nat)
    /\ mark \in Marks

\* The next block starts below the header of its page and below the last block.
Room ==
    doc # "none" =>
        /\ mark.page = page
        /\ y <= IF doc = "invoice" THEN 249 ELSE 253
        /\ y - 2 < mark.low
        /\ doc = "invoice" \/ left = 0 => y + 3 < mark.low

\* A section that was just opened has room for its first row, and set the ink.
FirstRow == opened > 0 => doc = "report" /\ left > 0 /\ y >= 30 /\ colour = "ink"

\* Every page of an invoice but the one being filled has its footer.
Footers ==
    /\ doc = "invoice" => page > 0 /\ feet = 1 .. page - 1
    /\ doc = "report" => mark.kind # "totals"

Layout ==
    /\ DocumentsTypes
    /\ Room
    /\ FirstRow
    /\ Footers
    /\ BlocksFitThePage
    /\ InvoicePagesAreNumbered

-----------------------------------------------------------------------------

\* report_tables yields sections whose numbers of rows are natural numbers.
LEMMA TablesTyped ==
    ASSUME NEW can \in SUBSET Permissions, NEW days \in Windows
    PROVE  ReportTables(can, ReportData(can, days)) \in Seq(SUBSET Nat)
<1> DEFINE data == ReportData(can, days)
           If(permission, tabs) == IF permission \in can THEN tabs ELSE <<>>
<1>1. \A condition \in BOOLEAN, n \in Nat : Count(condition, n) \in Nat
  BY DEF Count
<1>2. Count("orders" \in can, 3) \in Nat /\ Count("customers" \in can, 1) \in Nat
      /\ Count("products" \in can, 1) \in Nat
  BY DEF Count
<1>3. data.summary \in SUBSET Nat
  BY <1>2 DEF ReportData
<1>4. /\ data.daily \in SUBSET Nat /\ data.weekly \in SUBSET Nat
      /\ data.monthly \in SUBSET Nat /\ data.products \in SUBSET Nat
      /\ data.inventory \in SUBSET Nat /\ data.coupons \in SUBSET Nat
      /\ data.security \in SUBSET Nat
  BY DEF ReportData, Windows
<1> HIDE DEF data
<1>5. \A permission, tabs : tabs \in Seq(SUBSET Nat)
                              => If(permission, tabs) \in Seq(SUBSET Nat)
  OBVIOUS
<1>6. <<data.summary>> \in Seq(SUBSET Nat)
  BY <1>3
<1>7. /\ If("orders", <<data.daily, data.weekly, data.monthly, data.products>>)
           \in Seq(SUBSET Nat)
      /\ If("products", <<data.inventory>>) \in Seq(SUBSET Nat)
      /\ If("coupons", <<data.coupons>>) \in Seq(SUBSET Nat)
      /\ If("security", <<data.security>>) \in Seq(SUBSET Nat)
  <2> HIDE DEF If
  <2>1. /\ <<data.daily, data.weekly, data.monthly, data.products>> \in Seq(SUBSET Nat)
        /\ <<data.inventory>> \in Seq(SUBSET Nat)
        /\ <<data.coupons>> \in Seq(SUBSET Nat)
        /\ <<data.security>> \in Seq(SUBSET Nat)
    BY <1>4
  <2>2. QED
    BY <1>5, <2>1
<1>8. ReportTables(can, data) =
        <<data.summary>>
          \o If("orders", <<data.daily, data.weekly, data.monthly, data.products>>)
          \o If("products", <<data.inventory>>)
          \o If("coupons", <<data.coupons>>)
          \o If("security", <<data.security>>)
  BY DEF ReportTables
<1> HIDE DEF If
<1>9. QED
  BY <1>6, <1>7, <1>8, ConcatProperties DEF data

\* A document begins with nothing on its first page.
LEMMA LayoutInit == DocumentsInit => Layout
  BY DEF DocumentsInit, Layout, DocumentsTypes, Docs, Kinds, Colours, Marks, Room, FirstRow, Footers,
         BlocksFitThePage, InvoicePagesAreNumbered, Nothing

\* Layout is kept by every step.
LEMMA LayoutStep == Layout /\ [DocumentsNext]_vars => Layout'
<1> SUFFICES ASSUME Layout, [DocumentsNext]_vars PROVE Layout'
  OBVIOUS
<1> USE DEF Layout, DocumentsTypes, Docs, Kinds, Colours, Marks, Room, FirstRow, Footers,
            BlocksFitThePage, InvoicePagesAreNumbered, Drawn, Breaks, Start, Turn
<1>1. ASSUME NEW items \in 1 .. MaxItems, BeginInvoice(items) PROVE Layout'
  BY <1>1, DocumentsAssumption DEF BeginInvoice
<1>2. ASSUME PrintItem PROVE Layout'
  <2>1. doc' = "invoice" /\ y' = Start(48, 249) - 12 /\ y' \in Int
    BY <1>2 DEF PrintItem
  <2>2. Footers'
    <3>1. CASE Breaks(48)
      <4>1. page' = page + 1 /\ feet' = feet \cup {page} /\ feet = 1 .. page - 1
            /\ page \in Nat \ {0}
        BY <1>2, <3>1 DEF PrintItem
      <4>2. feet' = 1 .. page' - 1
        BY <4>1
      <4>3. QED
        BY <2>1, <4>1, <4>2
    <3>2. CASE ~Breaks(48)
      BY <1>2, <3>2 DEF PrintItem
    <3>3. QED
      BY <3>1, <3>2
  <2>3. DocumentsTypes' /\ Room' /\ FirstRow' /\ BlocksFitThePage'
        /\ InvoicePagesAreNumbered'
    BY <1>2, <2>1 DEF PrintItem
  <2>4. QED
    BY <2>2, <2>3
<1>3. ASSUME PrintTotals PROVE Layout'
  <2>1. InvoicePagesAreNumbered' /\ Footers'
    BY <1>3 DEF PrintTotals
  <2>2. DocumentsTypes' /\ Room' /\ FirstRow' /\ BlocksFitThePage'
    BY <1>3 DEF PrintTotals
  <2>3. QED
    BY <2>1, <2>2
<1>4. ASSUME NEW can \in SUBSET Permissions, NEW days \in Windows, BeginReport(can, days)
      PROVE  Layout'
  BY <1>4, TablesTyped DEF BeginReport
<1>5. ASSUME NEW rows \in IF tables = <<>> THEN {} ELSE Head(tables), BeginSection(rows)
      PROVE  Layout'
  <2>1. rows \in Nat /\ tables' \in Seq(SUBSET Nat)
    BY <1>5 DEF BeginSection
  <2>2. left' \in Nat /\ opened' = left'
    BY <1>5, <2>1 DEF BeginSection, Lesser
  <2>3. QED
    BY <1>5, <2>1, <2>2 DEF BeginSection
<1>6. ASSUME PrintRow PROVE Layout'
  BY <1>6 DEF PrintRow
<1>7. ASSUME EndReport PROVE Layout'
  BY <1>7 DEF EndReport
<1>8. CASE UNCHANGED vars
  BY <1>8 DEF vars
<1>9. QED
  BY <1>1, <1>2, <1>3, <1>4, <1>5, <1>6, <1>7, <1>8 DEF DocumentsNext

LEMMA LayoutAlways == DocumentsSpec => []Layout
  BY LayoutInit, LayoutStep, PTL DEF DocumentsSpec

-----------------------------------------------------------------------------

\* No block is drawn into the footer or the header of its page, however the
\* page breaks of render_invoice and pdf_bytes fall.
THEOREM BlocksFit == DocumentsSpec => []BlocksFitThePage
<1>1. Layout => BlocksFitThePage
  BY DEF Layout
<1>2. QED
  BY <1>1, LayoutAlways, PTL

\* An invoice of any number of items has its numbered footer on every page.
THEOREM PagesNumbered == DocumentsSpec => []InvoicePagesAreNumbered
<1>1. Layout => InvoicePagesAreNumbered
  BY DEF Layout
<1>2. QED
  BY <1>1, LayoutAlways, PTL

\* No block is drawn over the one before it on the page.
THEOREM NoOverprint == DocumentsSpec => NothingOverprints
<1>1. Layout /\ [DocumentsNext]_vars =>
        [doc # "none" /\ mark' # mark /\ mark'.page = mark.page =>
           mark'.top < mark.low]_vars
  <2> SUFFICES ASSUME Layout, DocumentsNext, doc # "none", mark' # mark,
                      mark'.page = mark.page
               PROVE  mark'.top < mark.low
    BY DEF vars
  <2> USE DEF Layout, DocumentsTypes, Docs, Kinds, Colours, Marks, Room, Drawn, Breaks, Start, Turn
  <2>1. CASE PrintItem
    BY <2>1 DEF PrintItem
  <2>2. CASE PrintTotals
    BY <2>2 DEF PrintTotals
  <2>3. ASSUME NEW rows, BeginSection(rows) PROVE mark'.top < mark.low
    BY <2>3 DEF BeginSection
  <2>4. CASE PrintRow
    BY <2>4 DEF PrintRow
  <2>5. ~\E items : BeginInvoice(items)
    BY DEF BeginInvoice
  <2>6. ~\E can, days : BeginReport(can, days)
    BY DEF BeginReport
  <2>7. ~EndReport
    BY DEF EndReport
  <2>8. QED
    BY <2>1, <2>2, <2>3, <2>4, <2>5, <2>6, <2>7 DEF DocumentsNext
<1>2. QED
  BY <1>1, LayoutAlways, PTL DEF DocumentsSpec, NothingOverprints

\* A title and table head are never alone at the foot of a page: the first row
\* of the section follows on it, in the ink that the title has set.
THEOREM HeadsKept == DocumentsSpec => HeadsKeepTheirRows
<1>1. Layout /\ [DocumentsNext]_vars =>
        [opened > 0 /\ mark' # mark =>
           mark'.page = mark.page /\ mark'.colour = "ink"]_vars
  <2> SUFFICES ASSUME Layout, DocumentsNext, opened > 0, mark' # mark
               PROVE  mark'.page = mark.page /\ mark'.colour = "ink"
    BY DEF vars
  <2> USE DEF Layout, DocumentsTypes, Docs, Kinds, Colours, Marks, Room, FirstRow, Drawn, Breaks, Start, Turn
  <2>1. doc = "report" /\ left > 0 /\ y >= 30 /\ mark.page = page /\ colour = "ink"
    OBVIOUS
  <2>2. CASE PrintRow
    BY <2>1, <2>2 DEF PrintRow
  <2>3. ~PrintItem /\ ~PrintTotals /\ ~EndReport
    BY <2>1 DEF PrintItem, PrintTotals, EndReport
  <2>4. /\ ~\E items : BeginInvoice(items)
        /\ ~\E can, days : BeginReport(can, days)
        /\ ~\E rows : BeginSection(rows)
    BY <2>1 DEF BeginInvoice, BeginReport, BeginSection
  <2>5. QED
    BY <2>2, <2>3, <2>4 DEF DocumentsNext
<1>2. QED
  BY <1>1, LayoutAlways, PTL DEF DocumentsSpec, HeadsKeepTheirRows

=============================================================================
