----------------------------- MODULE Documents -----------------------------
(***************************************************************************)
(* The two documents the shop prints: the invoice of an order              *)
(* (apps/orders/invoices.py) and the staff report                          *)
(* (apps/analytics/exports.py).                                            *)
(*                                                                         *)
(* Both draw on a canvas with a vertical position and a fill colour that   *)
(* outlive each drawing call, and break the page where they judge there is *)
(* no room.  How many rows there are, and so where the breaks fall, is up  *)
(* to the data.  Heights are millimetres from the lower edge of an A4      *)
(* page.  An action draws one item, one row or one block; `mark' is what   *)
(* it drew, with its highest and lowest ink.  Widths, fonts and texts are  *)
(* left out.                                                               *)
(***************************************************************************)
EXTENDS Integers, Sequences

CONSTANT MaxItems   \* bound of the model: items of an order

ASSUME DocumentsAssumption == MaxItems \in Nat \ {0}

VARIABLES
    doc,      \* what is printed: "invoice", "report", or "none" between two
    left,     \* items of the invoice, or rows of the section, to come
    tables,   \* sections of the report to come: the numbers of rows each may have
    opened,   \* rows of the section when its header was drawn; 0 after the first
    y,        \* where the next block starts
    page,     \* page_number
    colour,   \* the canvas's fill colour
    feet,     \* pages that have a footer
    mark      \* the last block drawn

vars == <<doc, left, tables, opened, y, page, colour, feet, mark>>

Permissions == {"orders", "products", "coupons", "customers", "security"}

\* report_window.
Windows == {7, 30, 90}

Lesser(m, n) == IF m <= n THEN m ELSE n
Count(condition, n) == IF condition THEN n ELSE 0

\* report_data for a user who may see `can', as the numbers of rows there can be
\* of each kind: figures of the summary; days, and weeks and months with a paid
\* order; ten best products; ten products and ten variants that run low; ten
\* best coupons, which take sight of the orders too; severities of events.
ReportData(can, days) ==
    [summary |-> {Count("orders" \in can, 3) + Count("customers" \in can, 1)
                    + Count("products" \in can, 1)},
     daily |-> {days},
     weekly |-> 0 .. (days + 12) \div 7,
     monthly |-> 0 .. Lesser(4, days \div 30 + 2),
     products |-> 0 .. 10,
     inventory |-> 0 .. 20,
     coupons |-> 0 .. Count("orders" \in can, 10),
     security |-> 0 .. 4]

\* report_tables: the summary, and a table for each kind the user may see.
ReportTables(can, data) ==
    LET If(permission, tabs) == IF permission \in can THEN tabs ELSE <<>> IN
    <<data.summary>>
        \o If("orders", <<data.daily, data.weekly, data.monthly, data.products>>)
        \o If("products", <<data.inventory>>)
        \o If("coupons", <<data.coupons>>)
        \o If("security", <<data.security>>)

Drawn(kind, top, low, ink) == [kind |-> kind, page |-> page', top |-> top,
                               low |-> low, colour |-> ink]
Nothing == [kind |-> "none", page |-> 0, top |-> 0, low |-> 0, colour |-> "ink"]

DocumentsInit ==
    /\ doc = "none" /\ left = 0 /\ tables = <<>> /\ opened = 0
    /\ y = 0 /\ page = 0 /\ colour = "ink" /\ feet = {} /\ mark = Nothing

\* On to the next page when less than `room' is left of this one; `start' is
\* where the header of a new page ends.  Operators, for the block that follows.
Breaks(room) == y < room
Start(room, start) == IF Breaks(room) THEN start ELSE y
Turn(room) == page' = IF Breaks(room) THEN page + 1 ELSE page

-----------------------------------------------------------------------------
(* The invoice                                                             *)

\* render_invoice up to the loop: the header band, five rows of addresses and
\* the head of the table.
BeginInvoice(items) ==
    /\ doc = "none"
    /\ doc' = "invoice" /\ left' = items /\ page' = 1 /\ feet' = {}
    /\ y' = 249 - 5 * 5 - 12 - 12
    /\ mark' = Drawn("head", 252, y' + 5, "ink")
    /\ colour' = "ink"
    /\ UNCHANGED <<tables, opened>>

\* Faulty variant: asks for the room of the item alone.
PrintItemLow ==
    LET at == Start(12, 249) IN
    /\ doc = "invoice" /\ left > 0
    /\ Turn(12)
    /\ feet' = IF Breaks(12) THEN feet \cup {page} ELSE feet
    /\ mark' = Drawn("item", at - 2, at - 7, "ink")
    /\ y' = at - 12 /\ left' = left - 1 /\ colour' = "ink"
    /\ UNCHANGED <<doc, tables, opened>>

\* The loop over the items; new_page draws the footer of the page it leaves.
PrintItem ==
    LET at == Start(48, 249) IN
    /\ doc = "invoice" /\ left > 0
    /\ Turn(48)
    /\ feet' = IF Breaks(48) THEN feet \cup {page} ELSE feet
    /\ mark' = Drawn("item", at - 2, at - 7, "ink")
    /\ y' = at - 12 /\ left' = left - 1 /\ colour' = "ink"
    /\ UNCHANGED <<doc, tables, opened>>

\* Faulty variant: turns the page without its footer.
PrintTotalsOneFooter ==
    LET at == Start(62, 249) IN
    /\ doc = "invoice" /\ left = 0
    /\ Turn(62)
    /\ feet' = feet \cup {page'}
    /\ mark' = Drawn("totals", at + 3, at - 4 * 6 - 4, "ink")
    /\ doc' = "none" /\ y' = at - 4 * 6 /\ colour' = "muted"
    /\ UNCHANGED <<left, tables, opened>>

\* Four figures, the rule and the total in one block, and the last footer.
PrintTotals ==
    LET at == Start(62, 249) IN
    /\ doc = "invoice" /\ left = 0
    /\ Turn(62)
    /\ feet' = feet \cup {page'} \cup (IF Breaks(62) THEN {page} ELSE {})
    /\ mark' = Drawn("totals", at + 3, at - 4 * 6 - 4, "ink")
    /\ doc' = "none" /\ y' = at - 4 * 6 /\ colour' = "muted"
    /\ UNCHANGED <<left, tables, opened>>

-----------------------------------------------------------------------------
(* The report.  page_header leaves the canvas in the white of its title.   *)

BeginReport(can, days) ==
    /\ doc = "none"
    /\ doc' = "report" /\ left' = 0 /\ opened' = 0
    /\ tables' = ReportTables(can, ReportData(can, days))
    /\ page' = 1 /\ feet' = {}
    /\ y' = 297 - 44
    /\ mark' = Drawn("band", 297, 297 - 30, "white")
    /\ colour' = "white"

\* Faulty variant: makes room for the title alone.
BeginSectionLow(rows) ==
    LET at == Start(36, 253) IN
    /\ doc = "report" /\ left = 0 /\ opened = 0 /\ tables # <<>>
    /\ Turn(36)
    /\ mark' = Drawn("section", at + 3, at - 11, "ink")
    /\ colour' = "ink" /\ tables' = Tail(tables)
    /\ left' = Lesser(rows, 10) /\ opened' = left'
    /\ y' = IF left' = 0 THEN at - 14 - 6 ELSE at - 14
    /\ UNCHANGED <<doc, feet>>

\* section: title and table head.  A section without rows ends here.
BeginSection(rows) ==
    LET at == Start(55, 253) IN
    /\ doc = "report" /\ left = 0 /\ opened = 0 /\ tables # <<>>
    /\ Turn(55)
    /\ mark' = Drawn("section", at + 3, at - 11, "ink")
    /\ colour' = "ink" /\ tables' = Tail(tables)
    /\ left' = Lesser(rows, 10) /\ opened' = left'
    /\ y' = IF left' = 0 THEN at - 14 - 6 ELSE at - 14
    /\ UNCHANGED <<doc, feet>>

\* Faulty variant: no gap after the last row.
PrintRowNoGap ==
    LET at == Start(30, 253) IN
    /\ doc = "report" /\ left > 0
    /\ Turn(30)
    /\ colour' = IF Breaks(30) THEN "white" ELSE colour
    /\ mark' = Drawn("row", at - 2, at - 6, colour')
    /\ left' = left - 1 /\ opened' = 0
    /\ y' = at - 7
    /\ UNCHANGED <<doc, tables, feet>>

\* One row of a section, in whatever colour the canvas has.
PrintRow ==
    LET at == Start(30, 253) IN
    /\ doc = "report" /\ left > 0
    /\ Turn(30)
    /\ colour' = IF Breaks(30) THEN "white" ELSE colour
    /\ mark' = Drawn("row", at - 2, at - 6, colour')
    /\ left' = left - 1 /\ opened' = 0
    /\ y' = IF left' = 0 THEN at - 7 - 6 ELSE at - 7
    /\ UNCHANGED <<doc, tables, feet>>

\* pdf_bytes after its loop: the footer of the last page, and of no other.
EndReport ==
    /\ doc = "report" /\ left = 0 /\ tables = <<>>
    /\ doc' = "none" /\ feet' = {page} /\ colour' = "muted"
    /\ UNCHANGED <<left, tables, opened, y, page, mark>>

DocumentsNext ==
    \/ \E items \in 1 .. MaxItems : BeginInvoice(items)
    \/ PrintItem
    \/ PrintTotals
    \/ \E can \in SUBSET Permissions, days \in Windows : BeginReport(can, days)
    \/ \E rows \in IF tables = <<>> THEN {} ELSE Head(tables) : BeginSection(rows)
    \/ PrintRow
    \/ EndReport

DocumentsSpec == DocumentsInit /\ [][DocumentsNext]_vars

-----------------------------------------------------------------------------
(* Properties                                                              *)

\* Whatever the number of rows, no block reaches into the footer, whose rule is
\* at 16 mm, or into the band of a page header.
BlocksFitThePage ==
    mark.kind \in {"head", "item", "totals", "section", "row"} =>
        mark.low > 16 /\ mark.top < 297 - 35

\* A block is drawn below everything that is on its page.
NothingOverprints ==
    [][doc # "none" /\ mark' # mark /\ mark'.page = mark.page =>
         mark'.top < mark.low]_vars

\* The first row of a section is on the page of its title and table head, and
\* so in ink, which the title has set: page_header leaves the canvas in white,
\* and the rows after a page break are drawn in that.
HeadsKeepTheirRows ==
    [][opened > 0 /\ mark' # mark =>
         mark'.page = mark.page /\ mark'.colour = "ink"]_vars

\* A finished invoice has a footer with its number on every page.
InvoicePagesAreNumbered ==
    doc = "none" /\ mark.kind = "totals" => feet = 1 .. page

=============================================================================
