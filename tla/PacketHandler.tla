--------------------------- MODULE PacketHandler ---------------------------
(***************************************************************************)
(* What the server does with a packet (IOCP_Basic/PacketHandler.cpp): who  *)
(* handles it, what its sender is answered, what the other clients get.    *)
(***************************************************************************)
EXTENDS Packets, Sequences

(* The lengths of fixed texts.                                             *)
ServerName   == 4         \* "the server"
UnknownName  == 8         \* "unknown"
Notice(name) == name + 19 \* "<name> has left."

(* The welcome is a text without a header; its third and fourth byte are   *)
(* no PacketType.                                                          *)
Greeting == [id |-> "text", size |-> 0, len |-> 66, name |-> 0, text |-> 66, ok |-> FALSE]

Requests == {"LoginReq", "ChatMessage", "Exit", "UserCountReq"}

IsHeaderValid(p) == p.size >= HeaderSize

(* An exit packet is taken for a bare header.                              *)
HandlerOfBareExit(p) ==
  IF /\ p.len >= HeaderSize /\ IsHeaderValid(p) /\ p.len >= p.size
     /\ p.id \in Requests
     /\ p.size = IF p.id = "Exit" THEN HeaderSize ELSE PacketSize(p.id)
  THEN p.id ELSE "error"

(* ProcessOnePacket: a packet it refuses goes to the error log only.       *)
Handler(p) ==
  IF /\ p.len >= HeaderSize /\ IsHeaderValid(p) /\ p.len >= p.size
     /\ p.id \in Requests /\ p.size = PacketSize(p.id)
  THEN p.id ELSE "error"

HandleLogin(p)       == PKLoginAck(Deserialize("LoginReq", p).name # 0)
HandleChatMessage(p) == PKChatBroadcast(p.name, p.text)
HandleExit(p) ==
  LET name == Deserialize("Exit", p).name IN
  PKChatBroadcast(ServerName, Notice(IF name = 0 THEN UnknownName ELSE name))

(* A count is only given to a packet that passes IsValid.                  *)
AnswerIfValid(p) ==
  CASE Handler(p) = "LoginReq" -> <<HandleLogin(p)>>
    [] Handler(p) = "UserCountReq" /\ IsValid("UserCountReq", p) -> <<PKUserCountAck>>
    [] OTHER -> <<>>

(* EnqueueSend to the client itself.                                       *)
Answer(p) ==
  CASE Handler(p) = "LoginReq"     -> <<HandleLogin(p)>>
    [] Handler(p) = "UserCountReq" -> <<PKUserCountAck>>
    [] OTHER                       -> <<>>

(* Broadcast to the others.                                                *)
News(p) ==
  CASE Handler(p) = "ChatMessage" -> <<HandleChatMessage(p)>>
    [] Handler(p) = "Exit"        -> <<HandleExit(p)>>
    [] OTHER                      -> <<>>
=============================================================================
