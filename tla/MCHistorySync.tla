---------------------------- MODULE MCHistorySync ----------------------------
(* Instances of HistorySync: documents with a full head; with another channel, *)
(* another category and no date; and with a head in which nothing is read.     *)
EXTENDS HistorySync

FullHead == [video |-> TRUE, metadata |-> [channel |-> 1, date |-> 1],
             names |-> {"n"}]
HalfHead == [video |-> TRUE, metadata |-> [channel |-> 2, date |-> Blank],
             names |-> {"m"}]
BareHead == [video |-> FALSE, metadata |-> NoRow.metadata, names |-> {}]

TheHeads == {FullHead, HalfHead, BareHead}
=============================================================================
