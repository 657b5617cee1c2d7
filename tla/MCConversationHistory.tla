----------------------- MODULE MCConversationHistory -----------------------
(* Two conversations of two users are created, written to and deleted between  *)
(* pages of one; titles, prompts and messages differ in what becomes of them.  *)
EXTENDS ConversationHistory

CONSTANTS u1, u2, empty, placeholder, special, long, huge, plain, none

AllTexts == {empty, placeholder, special, long, huge, plain}
SpecialTexts == {special}
LongTexts == {long, huge}
OversizedTexts == {huge}
BothUsers == {u1, u2}
SomeTitles == {none, long}
SomePrompts == {none, special, plain}
SomeBodies == {placeholder, special, long}
TwoRoles == {"system", "user"}
=============================================================================
