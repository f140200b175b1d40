--------------------------- MODULE MCTransferStore ---------------------------
EXTENDS TransferStore

Symmetry == Permutations(Objects)

Object == Leaf("object", Objects)
View == Leaf("view", Objects)

MCImpls ==
    [view    |-> View,
     nested  |-> OptionOf(OptionOf(Object)),
     vec     |-> VecOf(OptionOf(View), 2),
     map     |-> MapOf(View, {"k", Proto})]
=============================================================================
