\* Orders of up to 40 items print on one to three pages.
CONSTANTS
    MaxItems = 40
SPECIFICATION DocumentsSpec
INVARIANTS
    BlocksFitThePage
    InvoicePagesAreNumbered
PROPERTIES
    NothingOverprints
    HeadsKeepTheirRows
