-------------------------------- MODULE Board --------------------------------
(***************************************************************************)
(* The message boards of tpe_board.c and the player who reads them in the  *)
(* graphical interface of tpe_gui.c: the icon of a board and the boxes     *)
(* that show its messages.  The module runs on Server.                     *)
(*                                                                         *)
(* The boards are registered as a sequence: at each new turn those that    *)
(* changed are fetched (Sequence models the pages a list may come in; here *)
(* it comes in one).  A board says how many messages it has, the client    *)
(* asks for those it has not asked for before, and each arrives by itself. *)
(*                                                                         *)
(* Two steps stop the code before a message is kept.                       *)
(*   list   tpe_board_board_add() drops what eina_list_append() returns,   *)
(*          so that the list of boards stays empty                         *)
(*   block  tpe_board_msg_message_receive() parses into no block, which    *)
(*          parse_block() refuses                                          *)
(* The set repaired names those that are taken to work; it is empty for    *)
(* the code as it is.  What follows them can be checked only so.           *)
(*                                                                         *)
(* The Makefile builds tpe_board.c and leaves tpe_gui.c out, the one       *)
(* reader of the boards that there is.                                     *)
(***************************************************************************)
EXTENDS Integers, Sequences, SequencesExt, FiniteSets, Lists

CONSTANTS
  Repairs,          \* the sets of steps that may be taken to work
  Boards,           \* ids of the server's boards
  MaxTurns,         \* bound: turns that end
  MaxMessages,      \* bound: messages of a board
  MaxRefusals,      \* bound: messages the server refuses to send
  MaxBoxes          \* bound: message boxes the player opens

ASSUME RepairsAssumption == Repairs \subseteq SUBSET {"list", "block"}
ASSUME BoundAssumption ==
  /\ {MaxTurns, MaxMessages, MaxRefusals, MaxBoxes} \subseteq Nat
  /\ Boards \subseteq Nat /\ IsFiniteSet(Boards)

VARIABLES
  conncb, seq, cbs, toServer, fromServer, events, pushed,   \* as in Server
  repaired,         \* the steps taken to work
  boards,           \* tpe->board->boards, by id
  icons,            \* gui->boards, by id
  boxes,            \* what the message boxes show, in the order they were opened
  stopped,          \* an assertion has failed or a NULL was followed
  posted,           \* posted[b]: turns of the messages the server has on b
  changed,          \* changed[b]: when b last changed
  refused,          \* the messages the server did not send
  serverTurn        \* the server's turn

netVars == <<conncb, seq, cbs, toServer, fromServer, events, pushed>>
playerVars == <<icons, boxes, stopped>>
peerVars == <<posted, changed, refused, serverTurn>>
vars == <<netVars, repaired, boards, playerVars, peerVars>>

NoMessage == [turn |-> 0, unread |-> FALSE]
NoPlace == [board |-> 0, slot |-> -1]

Slots(n) == 0..(n - 1)

(* Requests, frames and events.                                            *)
Msg(type) == [type |-> type]
GetBoards(ids) == [type |-> "GetBoards", ids |-> ids]
MessageGet(id, slots) == [type |-> "MessageGet", id |-> id, slots |-> slots]
ListOfBoards(ids, updated) == [type |-> "ListOfBoards", ids |-> ids, updated |-> updated]
BoardFrame(id, nmessages, updated) ==
  [type |-> "Board", id |-> id, nmessages |-> nmessages, updated |-> updated]
Message(id, slot, turn) == [type |-> "Message", id |-> id, slot |-> slot, turn |-> turn]
BoardUpdate(id, board) ==
  [type |-> "BoardUpdate", id |-> id, unread |-> board.unread, messages |-> board.received]

Ask(body) == [body |-> body, cb |-> "none"]
Event(body) == [seq |-> 0, body |-> body]

Counts == Int
Requests ==
  {Msg("GetBoardIDs")} \cup [type : {"GetBoards"}, ids : Seq(Boards)]
    \cup [type : {"MessageGet"}, id : Boards, slots : Seq(Counts)]
Unheard == {Msg("SEQUENCE")}
Replies ==
  Unheard \cup {Msg("Connected"), Msg("NewTurn"), Msg("Fail")}
    \cup [type : {"ListOfBoards"}, ids : Seq(Boards), updated : [Boards -> Nat]]
    \cup [type : {"Board"}, id : Boards, nmessages : Counts, updated : Nat]
    \cup [type : {"Message"}, id : Boards, slot : Counts, turn : Nat]
    \cup [type : {"BoardUpdate"}, id : Boards, unread : Counts, messages : Counts]

Srv == INSTANCE Server
         WITH Body <- Requests, Reply <- Replies, Callback <- {}, NoCallback <- "none",
              Heard <- Replies \ Unheard,
              MaxSeq <- 1, MaxSends <- 0, MaxReply <- 0, MaxPush <- MaxTurns

(* talloc_zero() *)
NewBoard == [nmessages |-> 0, updated |-> 0, nalloced |-> 0,
             unread |-> 0, received |-> 0, messages |-> [s \in {} |-> NoMessage]]

Init ==
  /\ conncb = FALSE
  /\ seq = 1
  /\ cbs = {}
  /\ toServer = <<>>
  /\ fromServer = <<>>
  /\ events = <<Event(Msg("Connected"))>>
  /\ pushed = 0
  /\ repaired \in Repairs
  /\ boards = [b \in {} |-> NewBoard]
  /\ icons = [b \in {} |-> 0]
  /\ boxes = <<>>
  /\ stopped = FALSE
  /\ posted = [b \in Boards |-> <<>>]
  /\ changed = [b \in Boards |-> 1]
  /\ refused = {}
  /\ serverTurn = 1

-----------------------------------------------------------------------------
(* Client                                                                  *)

Frame ==
  /\ fromServer # <<>>
  /\ Srv!HandlePacket(<<>>, <<>>)
  /\ UNCHANGED <<repaired, boards, playerVars, peerVars>>

Arrives(type) ==
  /\ events # <<>>
  /\ Head(events).body.type = type

Content == Head(events).body

(* tpe_sequence_start() *)
Start ==
  /\ Arrives("Connected") \/ Arrives("NewTurn")
  /\ Srv!HandleEvent(<<Ask(Msg("GetBoardIDs"))>>, <<>>)
  /\ UNCHANGED <<repaired, boards, playerVars, peerVars>>

(* tpe_board_board_updated_get() *)
Updated(id) == IF id \in DOMAIN boards THEN boards[id].updated ELSE 0

(* tpe_sequence_handle_oids() *)
HandleOids ==
  /\ Arrives("ListOfBoards")
  /\ LET new == Selected(Content.ids, {id \in Boards : Updated(id) < Content.updated[id]})
     IN  Srv!HandleEvent(IF new # <<>> THEN <<Ask(GetBoards(new))>> ELSE <<>>, <<>>)
  /\ UNCHANGED <<repaired, boards, playerVars, peerVars>>

(* Mutant: the slots are asked for and not counted as allocated. *)
FilledNotCounted(board, n, updated) ==
  [board EXCEPT !.nmessages = n, !.updated = updated,
                !.messages = [s \in Slots(n) |-> IF s < board.nalloced THEN board.messages[s]
                                                 ELSE NoMessage]]

(* Mutant: every slot is emptied. *)
FilledAnew(board, n, updated) ==
  [board EXCEPT !.nmessages = n, !.updated = updated, !.nalloced = n,
                !.messages = IF n = board.nalloced THEN @ ELSE [s \in Slots(n) |-> NoMessage]]

(* A board as the server describes it, its new slots empty.                *)
Filled(board, n, updated) ==
  [board EXCEPT !.nmessages = n, !.updated = updated, !.nalloced = n,
                !.messages = [s \in Slots(n) |-> IF s < board.nalloced THEN @[s] ELSE NoMessage]]

(* tpe_board_msg_board_receive(), with tpe_board_board_add() *)
BoardReceive ==
  /\ Arrives("Board")
  /\ LET id == Content.id
         board == IF id \in DOMAIN boards THEN boards[id] ELSE NewBoard
         new == [i \in 1..(Content.nmessages - board.nalloced) |-> board.nalloced + i - 1]
     IN  /\ Srv!HandleEvent(IF new # <<>> THEN <<Ask(MessageGet(id, new))>> ELSE <<>>, <<>>)
         /\ boards' = IF "list" \in repaired
                      THEN [b \in DOMAIN boards \cup {id} |->
                              IF b = id THEN Filled(board, Content.nmessages, Content.updated)
                              ELSE boards[b]]
                      ELSE boards
  /\ UNCHANGED <<repaired, playerVars, peerVars>>

(* The board with a message in a slot. *)
Kept(board, slot, turn) ==
  [board EXCEPT !.messages[slot] = [turn |-> turn, unread |-> TRUE],
                !.unread = @ + 1, !.received = @ + 1]

(* tpe_board_msg_message_receive(): the message is dropped unless its      *)
(* board is known and its slot is empty.                                   *)
MessageReceive ==
  /\ Arrives("Message")
  /\ LET id == Content.id
     IN  IF "block" \in repaired /\ id \in DOMAIN boards
              /\ boards[id].messages[Content.slot] = NoMessage
         THEN /\ boards' = [boards EXCEPT ![id] = Kept(@, Content.slot, Content.turn)]
              /\ Srv!HandleEvent(<<>>, <<Event(BoardUpdate(id, boards'[id]))>>)
         ELSE /\ Srv!HandleEvent(<<>>, <<>>)
              /\ UNCHANGED boards
  /\ UNCHANGED <<repaired, playerVars, peerVars>>

(* Nothing here listens for a MsgFail. *)
Fail ==
  /\ Arrives("Fail")
  /\ Srv!HandleEvent(<<>>, <<>>)
  /\ UNCHANGED <<repaired, boards, playerVars, peerVars>>

(* gui_board_update(): the icon's text, and whether it is lit. *)
IconUpdate ==
  /\ Arrives("BoardUpdate")
  /\ Srv!HandleEvent(<<>>, <<>>)
  /\ icons' = [b \in DOMAIN icons \cup {Content.id} |->
                 IF b = Content.id
                 THEN [unread |-> Content.unread, messages |-> Content.messages,
                       lit |-> Content.unread # 0]
                 ELSE icons[b]]
  /\ UNCHANGED <<repaired, boards, boxes, stopped, peerVars>>

HandleAnyEvent ==
  Start \/ HandleOids \/ BoardReceive \/ MessageReceive \/ Fail \/ IconUpdate

-----------------------------------------------------------------------------
(* Player                                                                  *)

Place(b, s) == [board |-> b, slot |-> s]
TurnAt(b, s) == boards[b].messages[s].turn
Held(b) == {s \in DOMAIN boards[b].messages : boards[b].messages[s] # NoMessage}

(* A place of a board, or none when there is nothing in the slot.          *)
There(b, s) == IF s \in Held(b) THEN Place(b, s) ELSE NoPlace

(* tpe_board_board_message_unread_get() *)
UnreadGet(b) ==
  LET unread == {s \in Held(b) : boards[b].messages[s].unread}
  IN  IF unread = {} THEN NoPlace ELSE Place(b, Min(unread))

LastTurnSlots(b) == {s \in Held(b) : \A t \in Held(b) : TurnAt(b, t) <= TurnAt(b, s)}

(* Mutant: the last message of the turn. *)
TurnGetLast(b) == IF 0 \notin Held(b) THEN NoPlace ELSE Place(b, Max(LastTurnSlots(b)))

(* tpe_board_board_message_turn_get() *)
TurnGet(b) == IF 0 \notin Held(b) THEN NoPlace ELSE Place(b, Min(LastTurnSlots(b)))

(* tpe_board_board_message_next() and tpe_board_board_message_prev() *)
NextOf(b, s) == IF s + 1 < boards[b].nmessages THEN There(b, s + 1) ELSE Place(b, s)
PrevOf(b, s) == IF s > 0 THEN There(b, s - 1) ELSE Place(b, s)

(* The slots a walk over to looks at, in its order, up to the first with a *)
(* message of another turn than that of s.  An empty slot is followed.     *)
Other(b, s, t) == t \in Held(b) => TurnAt(b, t) # TurnAt(b, s)

(* Mutant: the walk goes one slot too far. *)
NextTurnSlotPast(b, s) ==
  LET other == {t \in s..boards[b].nmessages : Other(b, s, t)}
  IN  IF other = {} THEN boards[b].nmessages - 1 ELSE Min(other)

(* tpe_board_board_message_next_turn() *)
NextTurnSlot(b, s) ==
  LET other == {t \in s..(boards[b].nmessages - 1) : Other(b, s, t)}
  IN  IF other = {} THEN boards[b].nmessages - 1 ELSE Min(other)

(* tpe_board_board_message_prev_turn(): the first slot is not looked at.   *)
PrevTurnSlot(b, s) ==
  LET other == {t \in 1..s : Other(b, s, t)}
  IN  IF other = {} THEN 0 ELSE Max(other)

Buttons == {"next", "prev", "next turn", "prev turn"}

Target(button, p) ==
  CASE button = "next" -> NextOf(p.board, p.slot)
    [] button = "prev" -> PrevOf(p.board, p.slot)
    [] button = "next turn" -> There(p.board, NextTurnSlot(p.board, p.slot))
    [] button = "prev turn" -> There(p.board, PrevTurnSlot(p.board, p.slot))

(* The walks to another turn look into the slots they pass.  The first of  *)
(* a board is returned, not looked into.                                   *)
Follows(button, p) ==
  \/ button = "next turn" /\ NextTurnSlot(p.board, p.slot) \notin Held(p.board)
  \/ button = "prev turn" /\ PrevTurnSlot(p.board, p.slot) \notin Held(p.board) \cup {0}

(* Mutant: a message that was read is read again. *)
MessageReadAgain(p) ==
  LET board == boards[p.board]
      read == [board EXCEPT !.messages[p.slot].unread = FALSE, !.unread = @ - 1]
  IN  /\ boards' = [boards EXCEPT ![p.board] = read]
      /\ events' = Append(events, Event(BoardUpdate(p.board, read)))

(* tpe_board_board_message_read() *)
MessageRead(p) ==
  LET board == boards[p.board]
      read == [board EXCEPT !.messages[p.slot].unread = FALSE, !.unread = @ - 1]
  IN  IF board.messages[p.slot].unread
      THEN /\ boards' = [boards EXCEPT ![p.board] = read]
           /\ events' = Append(events, Event(BoardUpdate(p.board, read)))
      ELSE UNCHANGED <<boards, events>>

(* gui_messagebox_message_set() in box i, which nothing happens to without *)
(* a message.                                                              *)
MessageSet(all, i, p) ==
  IF p = NoPlace
  THEN boxes' = all /\ UNCHANGED <<boards, events>>
  ELSE boxes' = [all EXCEPT ![i] = p] /\ MessageRead(p)

PlayerActs == ~stopped /\ UNCHANGED <<conncb, seq, cbs, toServer, fromServer, pushed,
                                      repaired, icons, peerVars>>

(* board_mouse_down(): the first unread message, or the first of the last  *)
(* turn.  Without one the new box is closed again.                         *)
OpenBoard(b) ==
  /\ PlayerActs
  /\ b \in DOMAIN icons
  /\ Len(boxes) < MaxBoxes
  /\ LET p == IF UnreadGet(b) # NoPlace THEN UnreadGet(b) ELSE TurnGet(b)
     IN  IF p = NoPlace THEN UNCHANGED <<boards, events, boxes>>
         ELSE MessageSet(Append(boxes, NoPlace), Len(boxes) + 1, p)
  /\ UNCHANGED stopped

(* gui_edje_message_change(): a click in box i, which shows the result     *)
(* itself or in a new box.  A box without a message fails an assertion.    *)
Click(i, button, spawn) ==
  /\ PlayerActs
  /\ i \in 1..Len(boxes)
  /\ spawn => Len(boxes) < MaxBoxes
  /\ IF boxes[i] = NoPlace \/ Follows(button, boxes[i])
     THEN stopped' = TRUE /\ UNCHANGED <<boards, events, boxes>>
     ELSE /\ MessageSet(IF spawn THEN Append(boxes, NoPlace) ELSE boxes,
                        IF spawn THEN Len(boxes) + 1 ELSE i,
                        Target(button, boxes[i]))
          /\ UNCHANGED stopped

-----------------------------------------------------------------------------
(* Game server                                                             *)

Asked(type) ==
  /\ toServer # <<>>
  /\ Head(toServer).body.type = type

Question == Head(toServer).body

AnswerBoardIDs ==
  /\ Asked("GetBoardIDs")
  /\ Srv!Answer(<<ListOfBoards(Ascending(Boards), changed)>>)
  /\ UNCHANGED refused

Grouped(answer) == IF Len(answer) = 1 THEN answer ELSE <<Msg("SEQUENCE")>> \o answer

AnswerBoards ==
  /\ Asked("GetBoards")
  /\ LET ids == Question.ids
     IN  Srv!Answer(Grouped([i \in 1..Len(ids) |->
                      BoardFrame(ids[i], Len(posted[ids[i]]), changed[ids[i]])]))
  /\ UNCHANGED refused

(* The server may refuse a message.                                        *)
AnswerMessages ==
  /\ Asked("MessageGet")
  /\ LET b == Question.id
         slots == Question.slots
     IN  \E no \in SUBSET ToSet(slots) :
           /\ refused' = refused \cup {Place(b, s) : s \in no}
           /\ Cardinality(refused') <= MaxRefusals
           /\ Srv!Answer(Grouped([i \in 1..Len(slots) |->
                IF slots[i] \in no THEN Msg("Fail")
                ELSE Message(b, slots[i], posted[b][slots[i] + 1])]))

Answer == /\ AnswerBoardIDs \/ AnswerBoards \/ AnswerMessages
          /\ UNCHANGED <<repaired, boards, playerVars, posted, changed, serverTurn>>

(* A turn ends, with messages about it on some boards.                     *)
EndTurn ==
  /\ serverTurn <= MaxTurns
  /\ serverTurn' = serverTurn + 1
  /\ \E about \in [Boards -> 0..2] :
       /\ \A b \in Boards : Len(posted[b]) + about[b] <= MaxMessages
       /\ posted' = [b \in Boards |-> posted[b] \o [i \in 1..about[b] |-> serverTurn]]
       /\ changed' = [b \in Boards |-> IF about[b] > 0 THEN serverTurn' ELSE changed[b]]
  /\ Srv!Push(Msg("NewTurn"))
  /\ UNCHANGED <<repaired, boards, playerVars, refused>>

Next ==
  \/ ~stopped /\ (Frame \/ HandleAnyEvent)
  \/ \E b \in Boards : OpenBoard(b)
  \/ \E i \in 1..MaxBoxes, button \in Buttons, spawn \in BOOLEAN : Click(i, button, spawn)
  \/ Answer
  \/ EndTurn

Spec == Init /\ [][Next]_vars

-----------------------------------------------------------------------------

(* The counts of a board are those of the messages it holds, however often *)
(* a message is shown and wherever the player was when it came.            *)
CountsAgree ==
  \A b \in DOMAIN boards :
    LET held == Held(b)
    IN  /\ boards[b].received = Cardinality(held)
        /\ boards[b].unread = Cardinality({s \in held : boards[b].messages[s].unread})

(* The messages asked for and not handled yet, each with where it is.      *)
UnderWay ==
  (UNION {{<<"asked", i, toServer[i].body.id, s>> : s \in ToSet(toServer[i].body.slots)} :
            i \in {j \in 1..Len(toServer) : toServer[j].body.type = "MessageGet"}})
  \cup {<<"frame", i, fromServer[i].body.id, fromServer[i].body.slot>> :
           i \in {j \in 1..Len(fromServer) : fromServer[j].body.type = "Message"}}
  \cup {<<"event", i, events[i].body.id, events[i].body.slot>> :
           i \in {j \in 1..Len(events) : events[j].body.type = "Message"}}

(* A message of a board that is known is asked for once, though turns end  *)
(* while lists, boards and messages are under way.                         *)
AskedOnce ==
  "list" \in repaired =>
    \A m \in UnderWay :
      /\ \A n \in UnderWay : m[3] = n[3] /\ m[4] = n[4] => m = n
      /\ m[4] \notin Held(m[3])

Quiet == toServer = <<>> /\ fromServer = <<>> /\ events = <<>>

(* "Saves the new message in the boards list of messages": when nothing is *)
(* under way, what the server has posted and not refused is kept, under    *)
(* its turn.                                                               *)
MessagesSaved ==
  Quiet => \A b \in Boards : \A s \in Slots(Len(posted[b])) :
             Place(b, s) \notin refused =>
               /\ b \in DOMAIN boards
               /\ s \in Held(b)
               /\ TurnAt(b, s) = posted[b][s + 1]

(* What the two repairs are enough for: the messages are saved, and the    *)
(* icon shows their counts.                                                *)
SavedAndShown ==
  repaired = {"list", "block"} /\ Quiet =>
    /\ MessagesSaved
    /\ \A b \in DOMAIN boards :
         boards[b].received > 0 =>
           /\ b \in DOMAIN icons
           /\ icons[b] = [unread |-> boards[b].unread, messages |-> boards[b].received,
                          lit |-> boards[b].unread # 0]

(* A box is left without a message, and a click stops the program, only    *)
(* where a message has not come.  An empty box stays when the message has  *)
(* come after all, and the next click in it stops the program.             *)
TripsOnlyAtGaps ==
  [][(stopped' \/ NoPlace \in ToSet(boxes')) /\ ~(stopped \/ NoPlace \in ToSet(boxes)) =>
       \E b \in DOMAIN boards : Held(b) # DOMAIN boards[b].messages]_vars

(* On a board without gaps the reader is where the comments say: at the    *)
(* first message of the last turn, and one click from the first message of *)
(* the next turn, or from the last message.                                *)
ReaderFinds ==
  \A b \in DOMAIN boards :
    LET all == DOMAIN boards[b].messages
        last == boards[b].nmessages - 1
    IN  all # {} /\ Held(b) = all =>
          /\ \A s \in all : TurnAt(b, s) = TurnAt(b, last) <=> TurnGet(b).slot <= s
          /\ \A s \in all :
               LET t == NextTurnSlot(b, s)
               IN  IF TurnAt(b, s) = TurnAt(b, last) THEN t = last
                   ELSE t > s /\ TurnAt(b, t) > TurnAt(b, s) /\ TurnAt(b, t - 1) = TurnAt(b, s)
=============================================================================
