-------------------------------- MODULE Start --------------------------------
(***************************************************************************)
(* galaxie.c: the arguments of the program, one after the other, what      *)
(* main() sets up, in which order, and what it starts; with the event      *)
(* types and handlers the parts of the program add (tpe_event.c) and the   *)
(* browser of games (browser.c).                                           *)
(*                                                                         *)
(* An argument is the entries of the table args it begins with, the text   *)
(* behind its "=" if it has one, and the fields the regular expression     *)
(* finds in it if it is the URL of a server.                               *)
(***************************************************************************)
EXTENDS Integers, Sequences, SequencesExt

CONSTANTS
  Arguments,        \* arguments the program is started with
  MaxArguments,     \* bound: how many of them
  NumberOf          \* the numbers that texts stand for, where they do

ASSUME BoundAssumption == MaxArguments \in Nat

NoText == "NULL"
NoURL == <<>>

(* No entry of main()'s argv is NULL; strtol() reads the default port.     *)
ASSUME TextAssumption == \A arg \in Arguments : arg.text # NoText
ASSUME NumberAssumption == "6923" \in DOMAIN NumberOf /\ NumberOf["6923"] = 6923

URLFields == {"username", "password", "server", "port", "game"}

(* The table args: what an argument begins with, and what is done then.    *)
(* The first entry that fits counts.                                       *)
Table == <<
  <<"-b", "usebrowser">>,
  <<"--user", "username">>, <<"-u", "username">>,
  <<"--password", "password">>, <<"-p", "password">>,
  <<"--server", "server">>, <<"-s", "server">>,
  <<"--port", "port">>,
  <<"--game", "game">>, <<"-g", "game">>,
  <<"--ai", "ai">>, <<"--no-ai", "no_ai">>, <<"--noai", "no_ai">>,
  <<"--no-gui", "gui">>, <<"--nogui", "gui">>,
  <<"--theme", "theme">>, <<"-t", "theme">>, <<"--fullscreen", "fullscreen">>,
  <<"tp", "url">>,
  <<"--options", "options">>,
  <<"--list-ais", "list_ai">>, <<"--list-ai", "list_ai">>, <<"--ais", "list_ai">>,
  <<"--listais", "list_ai">>, <<"--listai", "list_ai">>,
  <<"--usage", "usage">>, <<"--help", "usage">>, <<"-h", "usage">>, <<"-?", "usage">>,
  <<"--test", "test">>, <<"--debug-messages", "debug_messages">> >>

Fitting(arg) == SelectSeq(Table, LAMBDA row : row[1] \in arg.begins)

Handler(arg) == IF Fitting(arg) = <<>> THEN "none" ELSE Fitting(arg)[1][2]

VARIABLES
  argv,             \* the arguments, without the program's name
  i,                \* the next one
  opt,              \* the options
  talloced,         \* those options that hold a string of talloc's
  state,            \* "arguments", "setup", "runs", "exits" or "faults"
  done,             \* modules initialised
  types,            \* event types added
  handlers,         \* event types with a handler
  unheard,          \* handlers for a type that was not there
  started           \* the connection main() makes, if any

setupVars == <<done, types, handlers, unheard>>
vars == <<argv, i, opt, talloced, state, setupVars, started>>

Defaults ==
  [username |-> "nash", password |-> "password", server |-> "localhost",
   game |-> NoText, port |-> 6923, ai |-> "none", theme |-> NoText,
   browse |-> FALSE, http |-> FALSE, ssl |-> FALSE, usegui |-> TRUE,
   fullscreen |-> FALSE, showoptions |-> FALSE, debug |-> FALSE]

Lines == UNION {[1..n -> Arguments] : n \in 0..MaxArguments}

NotStarted == [by |-> "nobody"]

Init ==
  /\ argv \in Lines
  /\ i = 1
  /\ opt = Defaults
  /\ talloced = {}
  /\ state = "arguments"
  /\ done = <<>>
  /\ types = {}
  /\ handlers = {}
  /\ unheard = {}
  /\ started = NotStarted

-----------------------------------------------------------------------------
(* Arguments                                                               *)

Parsing(handler) ==
  /\ state = "arguments"
  /\ i <= Len(argv)
  /\ Handler(argv[i]) = handler

(* What an option is is not skipped: the next argument is looked at for    *)
(* itself, though it may have been the value of this one.                  *)
Advance == i' = i + 1 /\ UNCHANGED <<argv, setupVars, started>>

Goes == state' = state
Keeps == UNCHANGED <<opt, talloced>>

(* Mutant: the value is always the next argument. *)
OptionValueNext(k) == IF k < Len(argv) THEN argv[k + 1].text ELSE NoText

(* parse_option(): the text behind "=", or the next argument. *)
OptionValue(k) ==
  IF argv[k].inline # NoText THEN argv[k].inline
  ELSE IF k < Len(argv) THEN argv[k + 1].text ELSE NoText

(* strtol() into an unsigned short *)
Port(text) == (IF text \in DOMAIN NumberOf THEN NumberOf[text] ELSE 0) % 65536

(* parse_password(), parse_server(), parse_game(), parse_theme()           *)
ParseText ==
  \E field \in {"password", "server", "game", "theme"} :
    /\ Parsing(field)
    /\ LET value == OptionValue(i)
       IN  IF value = NoText THEN Keeps
           ELSE /\ opt' = [opt EXCEPT ![field] = value]
                /\ talloced' = talloced \ {field}
    /\ Goes /\ Advance

(* Mutant: a name of strdup()'s counts as talloc's. *)
ParseUsernameTalloc ==
  /\ Parsing("username")
  /\ LET value == OptionValue(i)
     IN  IF value = NoText
         THEN Keeps /\ Goes
         ELSE IF "username" \in talloced
         THEN state' = "faults" /\ Keeps
         ELSE /\ opt' = [opt EXCEPT !.username = value]
              /\ talloced' = talloced \cup {"username"}
              /\ Goes
  /\ Advance

(* parse_username() frees the old name, whose it may not be. *)
ParseUsername ==
  /\ Parsing("username")
  /\ LET value == OptionValue(i)
     IN  IF value = NoText
         THEN Keeps /\ Goes
         ELSE IF "username" \in talloced
         THEN state' = "faults" /\ Keeps
         ELSE opt' = [opt EXCEPT !.username = value] /\ Goes /\ UNCHANGED talloced
  /\ Advance

(* parse_port() reads a value that may be NULL. *)
ParsePort ==
  /\ Parsing("port")
  /\ IF OptionValue(i) = NoText
     THEN state' = "faults" /\ Keeps
     ELSE opt' = [opt EXCEPT !.port = Port(OptionValue(i))] /\ Goes /\ UNCHANGED talloced
  /\ Advance

(* parse_ai(): "none" is the one name in the table when no computer player *)
(* is built in.                                                            *)
ParseAi ==
  /\ Parsing("ai")
  /\ opt' = IF OptionValue(i) = "none" THEN [opt EXCEPT !.ai = "none"] ELSE opt
  /\ Goes /\ Advance /\ UNCHANGED talloced

(* The flags, and what they set.                                           *)
Flag(handler) ==
  CASE handler = "usebrowser" -> [opt EXCEPT !.browse = TRUE]
    [] handler = "no_ai" -> [opt EXCEPT !.ai = NoText]
    [] handler = "gui" -> [opt EXCEPT !.usegui = FALSE]
    [] handler = "fullscreen" -> [opt EXCEPT !.fullscreen = TRUE]
    [] handler = "options" -> [opt EXCEPT !.showoptions = TRUE]
    [] handler = "debug_messages" -> [opt EXCEPT !.debug = TRUE]

ParseFlag ==
  /\ \E handler \in {"usebrowser", "no_ai", "gui", "fullscreen", "options", "debug_messages"} :
       Parsing(handler) /\ opt' = Flag(handler)
  /\ Goes /\ Advance /\ UNCHANGED talloced

Exits == state' = "exits" /\ Advance /\ Keeps

(* The names of the computer players, the help, and the tests, which exit  *)
(* when they are done.                                                     *)
ParseListAi == Parsing("list_ai") /\ Exits
ParseUsage == Parsing("usage") /\ Exits
ParseTest == Parsing("test") /\ Exits

(* An argument that fits nothing is passed over.                           *)
ParseNothing ==
  /\ Parsing("none")
  /\ Goes /\ Advance /\ Keeps

(* The fields of a URL that parse_url() takes: regexec() has no place for  *)
(* the last group, the game.                                               *)
Taken(url) == {f \in URLFields \ {"game"} : url[f] # NoText}

(* parse_url(): the fields it frees must not be its own. *)
ParseURL ==
  /\ Parsing("url")
  /\ IF argv[i].url = NoURL
     THEN Keeps /\ Goes
     ELSE LET url == argv[i].url[1]
          IN  IF Taken(url) \cap talloced # {}
              THEN state' = "faults" /\ Keeps
              ELSE
           /\ opt' = [f \in DOMAIN opt |->
                           CASE f \in {"http", "ssl"} -> opt[f] \/ url[f]
                             [] f \in Taken(url) ->
                                  IF f = "port" THEN Port(url.port) ELSE url[f]
                             [] OTHER -> opt[f]]
              /\ talloced' = talloced \cup (Taken(url) \ {"port"})
              /\ Goes
  /\ Advance

Parse ==
  \/ ParseText
  \/ ParseUsername
  \/ ParsePort
  \/ ParseAi
  \/ ParseFlag
  \/ ParseListAi
  \/ ParseUsage
  \/ ParseTest
  \/ ParseNothing
  \/ ParseURL

(* After the arguments: dump_options() or the modules. *)
ParseEnd ==
  /\ state = "arguments"
  /\ i > Len(argv)
  /\ state' = IF opt.showoptions THEN "exits" ELSE "setup"
  /\ UNCHANGED <<argv, i, opt, talloced, setupVars, started>>

-----------------------------------------------------------------------------
(* Modules                                                                 *)

(* Mutant: the sequences are there before the connection. *)
ModulesSwapped ==
  <<"server", "sequence", "comm", "object", "orders", "resources", "board", "ship">>

(* The order of main(). *)
Modules == <<"server", "comm", "sequence", "object", "orders", "resources", "board", "ship">>

(* The names of frames in msgnames that one of these modules uses.         *)
FrameNames ==
  {"MsgAvailableFeatures", "MsgFail", "MsgTimeRemaining",
   "MsgObject", "MsgGetObjectIDs", "MsgListOfObjectIDs", "MsgGetObjectsByID",
   "MsgObjectDescription", "MsgGetObjectDescriptionIDs",
   "MsgListOfObjectDescriptionIDs", "MsgGetObjectDescriptions",
   "MsgOrder", "MsgOrderDescription", "MsgGetOrderDescriptionIDs",
   "MsgOrderDescriptionIDs", "MsgGetOrderDescription",
   "MsgResourceDescription", "MsgGetResourceDescriptionIDs",
   "MsgListOfResourceDescriptionsIDs", "MsgGetResourceDescription",
   "MsgBoard", "MsgMessage", "MsgGetBoardIDs", "MsgListOfBoards", "MsgGetBoards",
   "MsgDesign", "MsgGetDesignIDs", "MsgListOfDesignIDs", "MsgGetDesign"}

(* What a module does when it is initialised: the event types it adds      *)
(* before and after its handlers, its handlers, and the frames its         *)
(* sequences send.                                                         *)
NoCalls == [before |-> {}, handlers |-> {}, after |-> {}, sends |-> {}]

(* tpe_sequence_register(): a handler for the list of ids, and two frames. *)
Registered(calls, updatemsg, oidlist, getmsg) ==
  [calls EXCEPT !.handlers = @ \cup {oidlist}, !.sends = @ \cup {updatemsg, getmsg}]

server_init == [NoCalls EXCEPT !.before = FrameNames]

tpe_comm_init ==
  [NoCalls EXCEPT
     !.handlers = {"MsgAvailableFeatures", "MsgFail", "MsgTimeRemaining"},
     !.after = {"NewTurn", "ConnectStart", "ConnectUpdate", "Connected", "HaveServerFeatures"}]

tpe_sequence_init == [NoCalls EXCEPT !.handlers = {"NewTurn", "Connected"}]

tpe_obj_init ==
  Registered(
    Registered(
      [NoCalls EXCEPT
         !.handlers = {"MsgObject", "MsgObjectDescription"},
         !.after = {"ObjectNew", "ObjectChanged", "ObjectDelete",
                    "PlanetNoOrders", "PlanetColonised", "FleetNoOrders"}],
      "MsgGetObjectDescriptionIDs", "MsgListOfObjectDescriptionIDs", "MsgGetObjectDescriptions"),
    "MsgGetObjectIDs", "MsgListOfObjectIDs", "MsgGetObjectsByID")

tpe_orders_init ==
  Registered(
    [NoCalls EXCEPT
       !.handlers = {"MsgOrderDescription", "MsgOrder", "ObjectChanged", "ObjectNew"}],
    "MsgGetOrderDescriptionIDs", "MsgOrderDescriptionIDs", "MsgGetOrderDescription")

tpe_resources_init ==
  Registered(
    [NoCalls EXCEPT !.before = {"ResourceNew"}, !.handlers = {"MsgResourceDescription"}],
    "MsgGetResourceDescriptionIDs", "MsgListOfResourceDescriptionsIDs",
    "MsgGetResourceDescription")

tpe_board_init ==
  Registered(
    [NoCalls EXCEPT !.before = {"BoardUpdate"}, !.handlers = {"MsgBoard", "MsgMessage"}],
    "MsgGetBoardIDs", "MsgListOfBoards", "MsgGetBoards")

tpe_ship_init ==
  Registered([NoCalls EXCEPT !.handlers = {"MsgDesign"}],
             "MsgGetDesignIDs", "MsgListOfDesignIDs", "MsgGetDesign")

Calls ==
  [server |-> server_init, comm |-> tpe_comm_init, sequence |-> tpe_sequence_init,
   object |-> tpe_obj_init, orders |-> tpe_orders_init, resources |-> tpe_resources_init,
   board |-> tpe_board_init, ship |-> tpe_ship_init]

(* A module is initialised.  tpe_event_handler_add() refuses a type that   *)
(* was not added; nobody looks at what it returns.                         *)
SetUp ==
  /\ state = "setup"
  /\ Len(done) < Len(Modules)
  /\ LET calls == Calls[Modules[Len(done) + 1]]
         known == types \cup calls.before
     IN  /\ done' = Append(done, Modules[Len(done) + 1])
         /\ types' = known \cup calls.after
         /\ handlers' = handlers \cup (calls.handlers \cap known)
         /\ unheard' = unheard \cup (calls.handlers \ known)
  /\ UNCHANGED <<argv, i, opt, talloced, state, started>>

(* The last part of main().  The browser goes to localhost whatever server *)
(* it is given.                                                            *)
Run ==
  /\ state = "setup"
  /\ Len(done) = Len(Modules)
  /\ state' = "runs"
  /\ started' =
       IF opt.browse
       THEN [by |-> "browser", server |-> "localhost", port |-> 6923, sent |-> <<>>]
       ELSE IF NoText \notin {opt.server, opt.username, opt.password}
       THEN [by |-> "comm", server |-> opt.server, port |-> opt.port,
             username |-> opt.username, password |-> opt.password, game |-> opt.game]
       ELSE NotStarted
  /\ UNCHANGED <<argv, i, opt, talloced, setupVars>>

(* browser_socket_connect() and browser_connect_reply(): the reply is not  *)
(* looked at.  What browser_games_receive() reads is printed.              *)
BrowserSends ==
  /\ state = "runs"
  /\ started.by = "browser"
  /\ \E next \in {<<"MsgConnect">>, <<"MsgConnect", "MsgGetGames">>} :
       /\ started.sent = Front(next)
       /\ started' = [started EXCEPT !.sent = next]
  /\ UNCHANGED <<argv, i, opt, talloced, state, setupVars>>

Next == Parse \/ ParseEnd \/ SetUp \/ Run \/ BrowserSends

Spec == Init /\ [][Next]_vars

-----------------------------------------------------------------------------

(* A command line in which no value begins like an option, and in which    *)
(* nothing is given that a URL before it has set.                          *)
Takes(arg) ==
  Handler(arg) \in {"username", "password", "server", "port", "game", "theme", "ai"}
    /\ arg.inline = NoText

Values == {k \in 1..Len(argv) : k > 1 /\ Takes(argv[k - 1])}

Plain ==
  /\ \A k \in Values : argv[k].begins = {}
  /\ Len(argv) > 0 => ~Takes(Last(argv))
  /\ \A k, m \in 1..Len(argv) :
       Handler(argv[k]) = "url" /\ k < m => Handler(argv[m]) \notin {"username", "url"}

(* What an argument says of an option, by the usage text.                  *)
Says(k, field) ==
  LET handler == Handler(argv[k])
  IN  IF handler = "url"
      THEN IF argv[k].url = NoURL THEN NoText
           ELSE IF field \in Taken(argv[k].url[1]) THEN argv[k].url[1][field] ELSE NoText
      ELSE IF handler # field THEN NoText
      ELSE IF argv[k].inline # NoText THEN argv[k].inline ELSE argv[k + 1].text

LastSaid(field, default) ==
  LET said == {k \in 1..Len(argv) : Says(k, field) # NoText}
  IN  IF said = {} THEN default
      ELSE Says(CHOOSE k \in said : \A m \in said : m <= k, field)

(* With a plain command line the client logs in where and as whom the line *)
(* says, each thing as it is said last, whatever the order of URL and      *)
(* options; unless it was told to browse.                                  *)
LogsInAsTold ==
  state = "runs" /\ Plain /\ (\A k \in 1..Len(argv) : Handler(argv[k]) # "usebrowser") =>
    /\ started.by = "comm"
    /\ started.username = LastSaid("username", "nash")
    /\ started.password = LastSaid("password", "password")
    /\ started.server = LastSaid("server", "localhost")
    /\ started.port = Port(LastSaid("port", "6923"))

(* A plain command line never ends the program by a free() of what is not  *)
(* malloc()'s or by a NULL that is read.                                   *)
PlainNeverFaults == Plain => state # "faults"

(* When the program runs every handler has been accepted: its event type   *)
(* had been added, by that module or by one that was initialised before.   *)
(* Types are names, and every name is spelled the same in both places.     *)
EveryHandlerHeard ==
  state = "runs" =>
    /\ unheard = {}
    /\ \A k \in 1..Len(Modules) :
         /\ Calls[Modules[k]].handlers \subseteq handlers
         /\ Calls[Modules[k]].sends \subseteq FrameNames
=============================================================================
