--------------------------- MODULE MCProtocolLink ---------------------------
EXTENDS ProtocolLink

(* How the tasks go on: all is well, or there is some trouble, alone or while *)
(* other messages come beside those of the transfer.                         *)
Alone  == {{trouble} : trouble \in {"late", "quits", "loss", "slow", "busy"}}
Mixed  == {{"chats", trouble} : trouble \in {"late", "quits", "loss", "busy"}} \cup {{"slow", "busy"}}
AllEnvs == {{}, {"chats"}, {"strict"}} \cup Alone \cup Mixed

(* Four messages are a whole transfer.  Three meet the other senders, and two *)
(* a phone that writes to NULL at the first of them, or two troubles.         *)
Messages == [e \in AllEnvs |-> CASE e = {"strict"} \/ e \in Mixed -> 2
                                 [] e \in {{"chats"}, {"busy"}}     -> 3
                                 [] OTHER                          -> 4]

(* The bytes of a body tell any length, or one that is too long. *)
Junk == [e \in AllEnvs |-> IF e \in Mixed THEN {0, 5} ELSE {5}]
=============================================================================
