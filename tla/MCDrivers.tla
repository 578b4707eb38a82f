----------------------------- MODULE MCDrivers ------------------------------
(* The drivers for TLC: tasks print (Uart) while one asks for the board's   *)
(* revision again and again (Mailbox).                                      *)
EXTENDS Uart

CONSTANTS Prop, Others, Revision, Size
VARIABLES at, value, requests, asked, answers, lastRead

Board == INSTANCE Mailbox WITH pc <- at

ASSUME BoardAssumption == Board!MailboxAssumption

(* A text of one character and a line feed.                                 *)
MCTexts == {<<"a">>, <<LF>>}

BoardVars   == <<at, value, requests, asked, answers, lastRead>>
DriversInit == Init /\ Board!Init
DriversNext == \/ Next /\ UNCHANGED BoardVars
               \/ Board!Next /\ UNCHANGED vars
DriversSpec == DriversInit /\ [][DriversNext]_<<vars, BoardVars>>
                 /\ Fairness /\ Board!Fairness

(* The answer of the board is taken for nothing else (Mailbox).             *)
AnswerIsThere == Board!AnswerIsThere

(* Every call of mailbox_call returns (Mailbox).                            *)
CallReturns == Board!CallReturns
=============================================================================
