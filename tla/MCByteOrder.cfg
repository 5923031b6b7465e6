SPECIFICATION Spec
CONSTANT
    Byte = {0, 1}
INVARIANTS
    TypeOK
    WritesDocumentedLayout
    ReadBack
    PollAndReadAgree
