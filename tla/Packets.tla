------------------------------ MODULE Packets ------------------------------
(***************************************************************************)
(* The packets of client and server (Common/PacketDef.h and the PK*        *)
(* classes).  A text is its length; what a fixed-size field cannot hold is *)
(* cut off.  Session ids, counts and times are left out.                   *)
(***************************************************************************)
EXTENDS Integers

HeaderSize == 4  \* sizeof(PacketHeader): size and id, two bytes each

NameField == 32  \* sender, nickname
TextField == 256 \* message

(* The bodies, packed; reason of LoginAck has 64 bytes.                    *)
BodySize == [
  ChatMessage |-> NameField + TextField + 8, ChatBroadcast |-> NameField + TextField + 8,
  Exit |-> NameField, LoginReq |-> NameField, LoginAck |-> 8 + 1 + 64 + 4,
  UserCount |-> 0, UserCountReq |-> 0, UserCountAck |-> 4]

PacketType    == DOMAIN BodySize
PacketSize(c) == HeaderSize + BodySize[c]

(* strncpy into a field, and the NUL after it.                             *)
Cut(text, field) == IF text < field THEN text ELSE field - 1

(* Serialize: id and size of the header, and how many bytes there are.     *)
Blank(c) == [id |-> c, size |-> PacketSize(c), len |-> PacketSize(c),
             name |-> 0, text |-> 0, ok |-> FALSE]

Named(c, nick)         == [Blank(c) EXCEPT !.name = Cut(nick, NameField)]
Said(c, nick, message) == [Named(c, nick) EXCEPT !.text = Cut(message, TextField)]

PKLoginReq(nick)               == Named("LoginReq", nick)
PKExit(nick)                   == Named("Exit", nick)
PKChatMessage(nick, message)   == Said("ChatMessage", nick, message)
PKChatBroadcast(nick, message) == Said("ChatBroadcast", nick, message)
PKLoginAck(ok)                 == [Blank("LoginAck") EXCEPT !.ok = ok]
PKUserCountReq                 == Blank("UserCountReq")
PKUserCountAck                 == Blank("UserCountAck")

(* IsValid.  PKUserCountReq looks for the id of PKUserCount; nobody asks.  *)
ValidId(c) == IF c = "UserCountReq" THEN "UserCount" ELSE c

IsValid(c, p) ==
  p.len >= PacketSize(c) /\ p.id = ValidId(c) /\ p.size = PacketSize(c)

Deserialize(c, p) == IF IsValid(c, p) THEN p ELSE Blank(c)
=============================================================================
