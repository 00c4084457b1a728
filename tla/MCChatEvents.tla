---------------------------- MODULE MCChatEvents ----------------------------
(***************************************************************************)
(* ChatEvents for TLC: people address the bot by its name, or talk to each *)
(* other.                                                                  *)
(***************************************************************************)
EXTENDS ChatEvents, TLC

Question == [sender |-> "ou_person", mentions |-> {"genie"}, text |-> "words", size |-> 2]
Chatter == [sender |-> "ou_person", mentions |-> {"ou_person"}, text |-> "words", size |-> 1]
Ping == [sender |-> "ou_person", mentions |-> {"ou_bot"}, text |-> "empty", size |-> 0]
PeopleWrite == {Question, Chatter, Ping}
=============================================================================
