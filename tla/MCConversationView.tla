-------------------------- MODULE MCConversationView --------------------------
(* Model checking of ConversationView, and of how the journals it rests on *)
(* are read.                                                               *)
EXTENDS ConversationView, Journals, TLC

(* A conversation of Claude has two turns, for it is the one of which both *)
(* snapshot and replay are kept.                                           *)
MCMaxTurns == [h \in Harnesses |-> IF h = "claude" THEN 2 ELSE 3]

AnyText == Permutations(Texts) \cup Permutations(Answers)

(* Read whole or in pages, in chunks of any size, and while it is written, *)
(* a journal says the same conversation.  The journals are bounded inputs  *)
(* and not the state's own: they are looked at before the first turn.      *)
JournalsAreReadWhole ==
    turns = <<>> => /\ RolloutPagesAreTheFile /\ PiPagesAreTheBranch
                    /\ OmpPagesContinue /\ ResultsJoinTheirCalls

=============================================================================
