----------------------------- MODULE StartProofs -----------------------------
(***************************************************************************)
(* Proofs about Start, for command lines of any length.                    *)
(***************************************************************************)
EXTENDS Start, SequenceTheorems, TLAPS

LoginFields == {"username", "password", "server", "port"}

(* What the arguments before the next one have said of a field, and the    *)
(* field then: as it was said last.                                        *)
Saying(n, field) == {k \in 1..n : Says(k, field) # NoText}

DefaultText(field) ==
  CASE field = "username" -> "nash"
    [] field = "password" -> "password"
    [] field = "server" -> "localhost"
    [] OTHER -> "6923"

ValueOf(field, text) == IF field = "port" THEN Port(text) ELSE text

(* The last of the arguments in said says it.                              *)
LastOf(said, field, default) ==
  IF said = {} THEN default
  ELSE Says(CHOOSE k \in said : \A m \in said : m <= k, field)

Told(field) ==
  \/ Saying(i - 1, field) = {} /\ opt[field] = ValueOf(field, DefaultText(field))
  \/ \E k \in Saying(i - 1, field) :
       /\ \A m \in Saying(i - 1, field) : m <= k
       /\ opt[field] = ValueOf(field, Says(k, field))

Walk ==
  /\ argv \in Lines
  /\ i \in 1..(Len(argv) + 1)
  /\ state \in {"setup", "runs"} => i = Len(argv) + 1

OptionsTold ==
  /\ DOMAIN opt = DOMAIN Defaults
  /\ opt.browse \in BOOLEAN
  /\ opt.browse => \E k \in 1..(i - 1) : Handler(argv[k]) = "usebrowser"
  /\ Plain => \A field \in LoginFields : Told(field)

(* Only URLs leave names that may be freed.                                *)
NamesFreed ==
  /\ talloced # {} => \E k \in 1..(i - 1) : Handler(argv[k]) = "url"
  /\ Plain => state # "faults"

(* The types a module needs are there when it is its turn.                 *)
ModulesDone ==
  /\ done \in Seq({Modules[k] : k \in 1..8})
  /\ Len(done) <= 8
  /\ state = "runs" => Len(done) = 8
  /\ unheard = {}
  /\ Len(done) >= 1 => FrameNames \subseteq types
  /\ Len(done) >= 2 => {"NewTurn", "Connected"} \subseteq types
  /\ Len(done) >= 4 => {"ObjectNew", "ObjectChanged"} \subseteq types
  /\ \A k \in 1..Len(done) : Calls[Modules[k]].handlers \subseteq handlers

(* What main() starts.                                                     *)
StartedAsOptions ==
  state = "runs" /\ ~opt.browse /\ NoText \notin {opt.server, opt.username, opt.password} =>
    started = [by |-> "comm", server |-> opt.server, port |-> opt.port,
               username |-> opt.username, password |-> opt.password, game |-> opt.game]

IInv ==
  /\ Walk
  /\ OptionsTold
  /\ NamesFreed
  /\ ModulesDone
  /\ StartedAsOptions

-----------------------------------------------------------------------------
(* Arguments                                                               *)

LEMMA LinesAreSeqs == Lines \subseteq Seq(Arguments)
<1>1. MaxArguments \in Nat
  BY BoundAssumption
<1>2. ASSUME NEW n \in Nat, NEW s \in [1..n -> Arguments] PROVE s \in Seq(Arguments)
  BY <1>2
<1> QED BY <1>1, <1>2 DEF Lines

LEMMA Line ==
  ASSUME Walk
  PROVE  /\ argv \in Seq(Arguments) /\ Len(argv) \in Nat /\ i \in Nat /\ i >= 1
         /\ \A k \in 1..Len(argv) : argv[k].text # NoText
<1>1. argv \in Seq(Arguments)
  BY LinesAreSeqs DEF Walk
<1>2. \A k \in 1..Len(argv) : argv[k] \in Arguments
  BY <1>1
<1> QED BY <1>1, <1>2, TextAssumption DEF Walk

(* What a plain command line depends on does not change.                   *)
LEMMA SameLine ==
  ASSUME argv' = argv
  PROVE  /\ Plain' <=> Plain
         /\ \A k, field : Says(k, field)' = Says(k, field)
         /\ \A n, field : Saying(n, field)' = Saying(n, field)
BY DEF Plain, Values, Says, Saying

(* In a plain command line an option that takes a value has one.           *)
LEMMA ValueGiven ==
  ASSUME Walk, Plain, NEW field \in {"username", "password", "server", "port", "game", "theme"},
         Parsing(field)
  PROVE  OptionValue(i) = Says(i, field) /\ OptionValue(i) # NoText
<1>1. /\ i \in 1..Len(argv) /\ Handler(argv[i]) = field
      /\ argv \in Seq(Arguments) /\ Len(argv) \in Nat
  BY Line DEF Parsing, Walk
<1>2. CASE argv[i].inline # NoText
  BY <1>1, <1>2 DEF OptionValue, Says
<1>3. CASE argv[i].inline = NoText
  <2>1. Takes(argv[i])
    BY <1>1, <1>3 DEF Takes
  <2>2. i # Len(argv)
    BY <1>1, <2>1 DEF Plain, Last
  <2>3. i < Len(argv) /\ i + 1 \in 1..Len(argv)
    BY <1>1, <2>2
  <2> QED BY <1>1, <1>3, <2>3, Line DEF OptionValue, Says
<1> QED BY <1>2, <1>3

LEMMA SaysNothing ==
  ASSUME NEW handler, NEW field \in LoginFields, Parsing(handler), handler \notin {field, "url"}
  PROVE  Says(i, field) = NoText
BY DEF Says, Parsing

LEMMA ToldStep ==
  ASSUME Walk, i <= Len(argv), i' = i + 1, argv' = argv, NEW field \in LoginFields, Told(field),
         \/ Says(i, field) = NoText /\ opt'[field] = opt[field]
         \/ Says(i, field) # NoText /\ opt'[field] = ValueOf(field, Says(i, field))
  PROVE  Told(field)'
<1>1. i \in Nat /\ i' - 1 = i /\ 1..i = 1..(i - 1) \cup {i}
  BY Line
<1>2. Told(field)' <=>
        \/ Saying(i, field) = {} /\ opt'[field] = ValueOf(field, DefaultText(field))
        \/ \E k \in Saying(i, field) :
             /\ \A m \in Saying(i, field) : m <= k
             /\ opt'[field] = ValueOf(field, Says(k, field))
  BY <1>1, SameLine DEF Told, ValueOf, Port
<1>3. CASE Says(i, field) = NoText /\ opt'[field] = opt[field]
  <2>1. Saying(i, field) = Saying(i - 1, field)
    BY <1>1, <1>3 DEF Saying
  <2> QED BY <1>2, <1>3, <2>1 DEF Told
<1>4. CASE Says(i, field) # NoText /\ opt'[field] = ValueOf(field, Says(i, field))
  <2>1. i \in Saying(i, field) /\ \A m \in Saying(i, field) : m <= i
    BY <1>1, <1>4 DEF Saying
  <2> QED BY <1>2, <1>4, <2>1
<1> QED BY <1>3, <1>4

(* What every handler of an argument does.                                 *)
LEMMA ArgumentHandled ==
  ASSUME IInv, NEW handler, Parsing(handler), Advance,
         DOMAIN opt' = DOMAIN opt, opt'.browse \in BOOLEAN,
         opt'.browse => opt.browse \/ handler = "usebrowser",
         talloced' # {} => talloced # {} \/ handler = "url",
         state' \in {"arguments", "exits", "faults"},
         Plain => state' # "faults",
         Plain => \A field \in LoginFields :
                    \/ Says(i, field) = NoText /\ opt'[field] = opt[field]
                    \/ Says(i, field) # NoText /\ opt'[field] = ValueOf(field, Says(i, field))
  PROVE  IInv'
<1>1. /\ i' = i + 1 /\ argv' = argv
      /\ UNCHANGED <<done, types, handlers, unheard, started>>
      /\ i <= Len(argv) /\ Handler(argv[i]) = handler
  BY DEF Advance, setupVars, Parsing
<1>2. Walk /\ i \in Nat /\ i >= 1 /\ Len(argv) \in Nat
  BY Line DEF IInv
<1>3. Walk'
  BY <1>1, <1>2 DEF Walk
<1>4. /\ 1..(i - 1) \subseteq 1..(i' - 1) /\ i \in 1..(i' - 1)
  BY <1>1, <1>2
<1>5. Plain' <=> Plain
  BY <1>1, SameLine
<1>6. /\ DOMAIN opt = DOMAIN Defaults
      /\ opt.browse => \E k \in 1..(i - 1) : Handler(argv[k]) = "usebrowser"
      /\ talloced # {} => \E k \in 1..(i - 1) : Handler(argv[k]) = "url"
  BY DEF IInv, OptionsTold, NamesFreed
<1>7. opt'.browse => \E k \in 1..(i' - 1) : Handler(argv[k]) = "usebrowser"
  BY <1>1, <1>4, <1>6
<1>8. talloced' # {} => \E k \in 1..(i' - 1) : Handler(argv[k]) = "url"
  BY <1>1, <1>4, <1>6
<1>9. Plain' => \A field \in LoginFields : Told(field)'
  <2> SUFFICES ASSUME Plain, NEW field \in LoginFields PROVE Told(field)'
    BY <1>5
  <2>1. Told(field)
    BY DEF IInv, OptionsTold
  <2> QED BY <1>1, <1>2, <2>1, ToldStep
<1>10. OptionsTold'
  BY <1>1, <1>6, <1>7, <1>9 DEF OptionsTold
<1>11. NamesFreed'
  BY <1>1, <1>5, <1>8 DEF NamesFreed
<1>12. ModulesDone'
  BY <1>1 DEF IInv, ModulesDone
<1>13. StartedAsOptions'
  BY DEF StartedAsOptions
<1> QED BY <1>3, <1>10, <1>11, <1>12, <1>13 DEF IInv

LEMMA OptionNames ==
  DOMAIN Defaults = {"username", "password", "server", "game", "port", "ai", "theme",
                     "browse", "http", "ssl", "usegui", "fullscreen", "showoptions", "debug"}
BY DEF Defaults

(* An option that is set is set, and the others are not.                   *)
LEMMA Setting ==
  ASSUME IInv, NEW name, name \in DOMAIN Defaults, NEW value, opt' = [opt EXCEPT ![name] = value]
  PROVE  /\ DOMAIN opt' = DOMAIN opt
         /\ opt'[name] = value
         /\ \A other \in DOMAIN Defaults : other # name => opt'[other] = opt[other]
         /\ opt.browse \in BOOLEAN
         /\ LoginFields \subseteq DOMAIN Defaults
         /\ "browse" \in DOMAIN Defaults /\ "browse" \notin LoginFields
BY OptionNames DEF IInv, OptionsTold, LoginFields

(* An argument that changes none of what a login needs.                    *)
LEMMA PassedOver ==
  ASSUME IInv, NEW handler, Parsing(handler), Advance, talloced' = talloced,
         handler \notin LoginFields \cup {"url"},
         DOMAIN opt' = DOMAIN opt, opt'.browse \in BOOLEAN,
         opt'.browse => opt.browse \/ handler = "usebrowser",
         \A field \in LoginFields : opt'[field] = opt[field],
         state' \in {"arguments", "exits"}
  PROVE  IInv'
<1>1. \A field \in LoginFields : Says(i, field) = NoText
  BY SaysNothing
<1> QED BY <1>1, ArgumentHandled

LEMMA ParseTextInv == IInv /\ ParseText => IInv'
<1> SUFFICES ASSUME IInv, ParseText PROVE IInv'
  OBVIOUS
<1>1. PICK field \in {"password", "server", "game", "theme"} :
        /\ Parsing(field)
        /\ IF OptionValue(i) = NoText THEN Keeps
           ELSE /\ opt' = [opt EXCEPT ![field] = OptionValue(i)]
                /\ talloced' = talloced \ {field}
        /\ Goes /\ Advance
  BY DEF ParseText
<1>2. state' = "arguments" /\ Walk
  BY <1>1 DEF Goes, Parsing, IInv
<1>3. /\ DOMAIN opt' = DOMAIN opt /\ opt'.browse = opt.browse /\ opt.browse \in BOOLEAN
      /\ \A other \in LoginFields : other # field => opt'[other] = opt[other]
      /\ OptionValue(i) # NoText => opt'[field] = OptionValue(i)
      /\ talloced' \subseteq talloced
  <2>1. CASE OptionValue(i) = NoText
    BY <1>1, <2>1 DEF Keeps, IInv, OptionsTold
  <2>2. CASE OptionValue(i) # NoText
    BY <1>1, <2>2, Setting, OptionNames
  <2> QED BY <2>1, <2>2
<1>4. ASSUME Plain, NEW other \in LoginFields
      PROVE  \/ Says(i, other) = NoText /\ opt'[other] = opt[other]
             \/ Says(i, other) # NoText /\ opt'[other] = ValueOf(other, Says(i, other))
  <2>1. CASE other = field
    BY <1>1, <1>2, <1>3, <1>4, <2>1, ValueGiven DEF ValueOf
  <2>2. CASE other # field
    BY <1>1, <1>3, <2>2, SaysNothing
  <2> QED BY <2>1, <2>2
<1> QED BY <1>1, <1>2, <1>3, <1>4, ArgumentHandled

(* A name given before a URL is strdup()'s; a plain line gives none behind.*)
LEMMA ParseUsernameInv == IInv /\ ParseUsername => IInv'
<1> SUFFICES ASSUME IInv, ParseUsername PROVE IInv'
  OBVIOUS
<1>1. Parsing("username") /\ Advance /\ Walk /\ state = "arguments"
  BY DEF ParseUsername, IInv, Parsing
<1>2. ASSUME Plain PROVE talloced = {}
  <2> SUFFICES ASSUME talloced # {} PROVE FALSE
    OBVIOUS
  <2>1. PICK k \in 1..(i - 1) : Handler(argv[k]) = "url"
    BY DEF IInv, NamesFreed
  <2>2. k \in 1..Len(argv) /\ i \in 1..Len(argv) /\ k < i
    BY <1>1, <2>1, Line DEF Parsing
  <2> QED BY <1>1, <1>2, <2>1, <2>2 DEF Plain, Parsing
<1>3. /\ DOMAIN opt' = DOMAIN opt /\ opt'.browse = opt.browse /\ opt.browse \in BOOLEAN
      /\ \A other \in LoginFields : other # "username" => opt'[other] = opt[other]
      /\ talloced' = talloced
      /\ state' \in {"arguments", "faults"}
      /\ Plain => state' = "arguments"
      /\ Plain => opt'["username"] = OptionValue(i)
  <2>1. CASE OptionValue(i) = NoText
    <3>1. ~Plain
      BY <1>1, <2>1, ValueGiven
    <3> QED BY <1>1, <2>1, <3>1 DEF ParseUsername, Keeps, Goes, IInv, OptionsTold
  <2>2. CASE OptionValue(i) # NoText /\ "username" \in talloced
    BY <1>1, <1>2, <2>2 DEF ParseUsername, Keeps, IInv, OptionsTold
  <2>3. CASE OptionValue(i) # NoText /\ "username" \notin talloced
    <3>1. opt' = [opt EXCEPT !["username"] = OptionValue(i)] /\ talloced' = talloced
          /\ state' = "arguments"
      BY <1>1, <2>3 DEF ParseUsername, Goes
    <3> QED BY <3>1, Setting, OptionNames
  <2> QED BY <2>1, <2>2, <2>3
<1>4. ASSUME Plain, NEW other \in LoginFields
      PROVE  \/ Says(i, other) = NoText /\ opt'[other] = opt[other]
             \/ Says(i, other) # NoText /\ opt'[other] = ValueOf(other, Says(i, other))
  <2>1. CASE other = "username"
    BY <1>1, <1>3, <1>4, <2>1, ValueGiven DEF ValueOf
  <2>2. CASE other # "username"
    BY <1>1, <1>3, <2>2, SaysNothing
  <2> QED BY <2>1, <2>2
<1> QED BY <1>1, <1>3, <1>4, ArgumentHandled

LEMMA ParsePortInv == IInv /\ ParsePort => IInv'
<1> SUFFICES ASSUME IInv, ParsePort PROVE IInv'
  OBVIOUS
<1>1. Parsing("port") /\ Advance /\ Walk /\ state = "arguments"
  BY DEF ParsePort, IInv, Parsing
<1>2. /\ DOMAIN opt' = DOMAIN opt /\ opt'.browse = opt.browse /\ opt.browse \in BOOLEAN
      /\ \A other \in LoginFields : other # "port" => opt'[other] = opt[other]
      /\ talloced' = talloced
      /\ state' \in {"arguments", "faults"}
      /\ Plain => state' = "arguments"
      /\ Plain => opt'["port"] = Port(OptionValue(i))
  <2>1. CASE OptionValue(i) = NoText
    <3>1. ~Plain
      BY <1>1, <2>1, ValueGiven
    <3> QED BY <1>1, <2>1, <3>1 DEF ParsePort, Keeps, IInv, OptionsTold
  <2>2. CASE OptionValue(i) # NoText
    <3> DEFINE value == Port(OptionValue(i))
    <3>1. opt' = [opt EXCEPT !["port"] = value] /\ talloced' = talloced /\ state' = "arguments"
      BY <1>1, <2>2 DEF ParsePort, Goes
    <3> HIDE DEF value
    <3>2. opt'["port"] = value
      BY <3>1, Setting, OptionNames
    <3>3. /\ DOMAIN opt' = DOMAIN opt /\ opt'.browse = opt.browse /\ opt.browse \in BOOLEAN
          /\ \A other \in LoginFields : other # "port" => opt'[other] = opt[other]
      BY <3>1, Setting, OptionNames
    <3> QED BY <3>1, <3>2, <3>3 DEF value
  <2> QED BY <2>1, <2>2
<1>3. ASSUME Plain, NEW other \in LoginFields
      PROVE  \/ Says(i, other) = NoText /\ opt'[other] = opt[other]
             \/ Says(i, other) # NoText /\ opt'[other] = ValueOf(other, Says(i, other))
  <2>1. CASE other = "port"
    BY <1>1, <1>2, <1>3, <2>1, ValueGiven DEF ValueOf
  <2>2. CASE other # "port"
    BY <1>1, <1>2, <2>2, SaysNothing
  <2> QED BY <2>1, <2>2
<1> QED BY <1>1, <1>2, <1>3, ArgumentHandled

LEMMA ParseAiInv == IInv /\ ParseAi => IInv'
<1> SUFFICES ASSUME IInv, ParseAi PROVE IInv'
  OBVIOUS
<1>1. /\ Parsing("ai") /\ Advance /\ talloced' = talloced /\ state' = "arguments"
      /\ opt' = opt \/ opt' = [opt EXCEPT !["ai"] = "none"]
  BY DEF ParseAi, Goes, Parsing
<1>2. /\ DOMAIN opt' = DOMAIN opt /\ opt'.browse = opt.browse /\ opt.browse \in BOOLEAN
      /\ \A field \in LoginFields : opt'[field] = opt[field]
  <2>1. CASE opt' = opt
    BY <2>1 DEF IInv, OptionsTold
  <2>2. CASE opt' = [opt EXCEPT !["ai"] = "none"]
    <3>1. /\ "ai" \in DOMAIN Defaults /\ "ai" \notin LoginFields
          /\ "browse" # "ai"
      BY OptionNames DEF LoginFields
    <3>2. /\ DOMAIN opt' = DOMAIN opt
          /\ \A other \in DOMAIN Defaults : other # "ai" => opt'[other] = opt[other]
          /\ opt.browse \in BOOLEAN /\ LoginFields \subseteq DOMAIN Defaults
          /\ "browse" \in DOMAIN Defaults
      BY ONLY IInv, <2>2, <3>1, Setting
    <3> QED BY ONLY <3>1, <3>2
  <2> QED BY <1>1, <2>1, <2>2
<1>3. "ai" \notin LoginFields \cup {"url"}
  BY DEF LoginFields
<1> QED BY <1>1, <1>2, <1>3, PassedOver

LEMMA ParseFlagInv == IInv /\ ParseFlag => IInv'
<1> SUFFICES ASSUME IInv, ParseFlag PROVE IInv'
  OBVIOUS
<1>1. PICK handler \in {"usebrowser", "no_ai", "gui", "fullscreen", "options", "debug_messages"} :
        Parsing(handler) /\ opt' = Flag(handler)
  BY DEF ParseFlag
<1>2. Advance /\ talloced' = talloced /\ state' = "arguments"
  BY DEF ParseFlag, Goes, Parsing
<1>3. PICK name \in {"browse", "ai", "usegui", "fullscreen", "showoptions", "debug"},
           value \in {TRUE, FALSE, NoText} :
        /\ opt' = [opt EXCEPT ![name] = value]
        /\ name = "browse" => handler = "usebrowser" /\ value = TRUE
  <2>1. CASE handler = "usebrowser"
    BY <1>1, <2>1 DEF Flag
  <2>2. CASE handler = "no_ai"
    BY <1>1, <2>2 DEF Flag
  <2>3. CASE handler = "gui"
    BY <1>1, <2>3 DEF Flag
  <2>4. CASE handler = "fullscreen"
    BY <1>1, <2>4 DEF Flag
  <2>5. CASE handler = "options"
    BY <1>1, <2>5 DEF Flag
  <2>6. CASE handler = "debug_messages"
    BY <1>1, <2>6 DEF Flag
  <2> QED BY <2>1, <2>2, <2>3, <2>4, <2>5, <2>6
<1>4. /\ DOMAIN opt' = DOMAIN opt
      /\ opt'[name] = value
      /\ \A other \in DOMAIN Defaults : other # name => opt'[other] = opt[other]
      /\ opt.browse \in BOOLEAN
      /\ LoginFields \subseteq DOMAIN Defaults
      /\ "browse" \in DOMAIN Defaults
  BY <1>3, Setting, OptionNames
<1>5. /\ opt'.browse \in BOOLEAN
      /\ opt'.browse => opt.browse \/ handler = "usebrowser"
  BY <1>3, <1>4
<1>6. \A field \in LoginFields : opt'[field] = opt[field]
  BY <1>3, <1>4 DEF LoginFields
<1>7. handler \notin LoginFields \cup {"url"}
  BY DEF LoginFields
<1> QED BY <1>1, <1>2, <1>4, <1>5, <1>6, <1>7, PassedOver

LEMMA ParseExitsInv ==
  ASSUME IInv, ParseListAi \/ ParseUsage \/ ParseTest \/ ParseNothing
  PROVE  IInv'
<1>1. PICK handler \in {"list_ai", "usage", "test", "none"} :
        Parsing(handler) /\ Advance /\ Keeps /\ state' \in {"arguments", "exits"}
  BY DEF ParseListAi, ParseUsage, ParseTest, ParseNothing, Exits, Goes, Parsing
<1>2. /\ DOMAIN opt' = DOMAIN opt /\ opt'.browse = opt.browse /\ opt.browse \in BOOLEAN
      /\ \A field \in LoginFields : opt'[field] = opt[field]
      /\ talloced' = talloced
  BY <1>1 DEF Keeps, IInv, OptionsTold
<1>3. handler \notin LoginFields \cup {"url"}
  BY DEF LoginFields
<1> QED BY <1>1, <1>2, <1>3, PassedOver

(* A URL frees what it sets, so a plain line has one at most.              *)
LEMMA ParseURLInv == IInv /\ ParseURL => IInv'
<1> SUFFICES ASSUME IInv, ParseURL PROVE IInv'
  OBVIOUS
<1> DEFINE url == argv[i].url[1]
<1>1. Parsing("url") /\ Advance /\ Walk /\ state = "arguments" /\ Handler(argv[i]) = "url"
  BY DEF ParseURL, IInv, Parsing
<1>2. ASSUME Plain PROVE talloced = {}
  <2> SUFFICES ASSUME talloced # {} PROVE FALSE
    OBVIOUS
  <2>1. PICK k \in 1..(i - 1) : Handler(argv[k]) = "url"
    BY DEF IInv, NamesFreed
  <2>2. k \in 1..Len(argv) /\ i \in 1..Len(argv) /\ k < i
    BY <1>1, <2>1, Line DEF Parsing
  <2> QED BY <1>1, <1>2, <2>1, <2>2 DEF Plain, Parsing
<1>3. DOMAIN opt = DOMAIN Defaults /\ opt.browse \in BOOLEAN
  BY DEF IInv, OptionsTold
<1>4. CASE argv[i].url = NoURL
  <2>1. Keeps /\ state' = "arguments"
    BY <1>1, <1>4 DEF ParseURL, Goes
  <2>2. opt' = opt /\ talloced' = talloced
    BY <2>1 DEF Keeps
  <2>3. \A field \in LoginFields : Says(i, field) = NoText
    BY <1>1, <1>4 DEF Says
  <2> QED BY <1>1, <1>3, <2>1, <2>2, <2>3, ArgumentHandled
<1>5. CASE argv[i].url # NoURL /\ Taken(url) \cap talloced # {}
  <2>1. Keeps /\ state' = "faults"
    BY <1>1, <1>5 DEF ParseURL
  <2>2. opt' = opt /\ talloced' = talloced
    BY <2>1 DEF Keeps
  <2>3. ~Plain
    BY <1>2, <1>5
  <2> QED BY <1>1, <1>3, <2>1, <2>2, <2>3, ArgumentHandled
<1>6. CASE argv[i].url # NoURL /\ Taken(url) \cap talloced = {}
  <2>1. /\ opt' = [f \in DOMAIN opt |->
                     CASE f \in {"http", "ssl"} -> opt[f] \/ url[f]
                       [] f \in Taken(url) ->
                            IF f = "port" THEN Port(url.port) ELSE url[f]
                       [] OTHER -> opt[f]]
        /\ talloced' = talloced \cup (Taken(url) \ {"port"})
        /\ state' = "arguments"
    BY <1>1, <1>6 DEF ParseURL, Goes
  <2>2. DOMAIN opt' = DOMAIN opt
    BY <2>1
  <2>3. Taken(url) \subseteq LoginFields
    BY DEF Taken, URLFields, LoginFields
  <2>4. /\ "browse" \in DOMAIN opt /\ "browse" \notin LoginFields
        /\ LoginFields \subseteq DOMAIN opt
        /\ "http" \notin LoginFields /\ "ssl" \notin LoginFields
        /\ "browse" # "http" /\ "browse" # "ssl"
    BY <1>3, OptionNames DEF LoginFields
  <2>5. opt'.browse = opt.browse
    BY <2>1, <2>3, <2>4
  <2>6. ASSUME NEW field \in LoginFields
        PROVE  \/ Says(i, field) = NoText /\ opt'[field] = opt[field]
               \/ Says(i, field) # NoText /\ opt'[field] = ValueOf(field, Says(i, field))
    <3>1. CASE field \in Taken(url)
      <4>1. Says(i, field) = url[field] /\ url[field] # NoText
        BY <1>1, <1>6, <3>1 DEF Says, Taken
      <4>2. opt'[field] = IF field = "port" THEN Port(url.port) ELSE url[field]
        BY <2>1, <2>4, <3>1
      <4> QED BY <4>1, <4>2 DEF ValueOf
    <3>2. CASE field \notin Taken(url)
      <4>1. Says(i, field) = NoText
        BY <1>1, <1>6, <3>2 DEF Says
      <4>2. opt'[field] = opt[field]
        BY <2>1, <2>4, <3>2
      <4> QED BY <4>1, <4>2
    <3> QED BY <3>1, <3>2
  <2> QED BY <1>1, <1>3, <2>1, <2>2, <2>5, <2>6, ArgumentHandled
<1> QED BY <1>4, <1>5, <1>6

LEMMA ParseEndInv == IInv /\ ParseEnd => IInv'
<1> SUFFICES ASSUME IInv, ParseEnd PROVE IInv'
  OBVIOUS
<1>1. /\ state = "arguments" /\ i > Len(argv) /\ state' \in {"exits", "setup"}
      /\ UNCHANGED <<argv, i, opt, talloced, done, types, handlers, unheard, started>>
  BY DEF ParseEnd, setupVars
<1>2. Walk /\ Walk'
  BY <1>1, Line DEF IInv, Walk
<1>3. OptionsTold'
  BY <1>1, SameLine DEF IInv, OptionsTold, Told, ValueOf, Port
<1>4. NamesFreed' /\ StartedAsOptions'
  BY <1>1, SameLine DEF IInv, NamesFreed, StartedAsOptions
<1>5. ModulesDone'
  BY <1>1 DEF IInv, ModulesDone
<1> QED BY <1>2, <1>3, <1>4, <1>5 DEF IInv

-----------------------------------------------------------------------------
(* Modules                                                                 *)

Own == {"NewTurn", "Connected", "ObjectNew", "ObjectChanged", "ResourceNew", "BoardUpdate"}

LEMMA CallsOf ==
  /\ Calls[Modules[1]] = server_init
  /\ Calls[Modules[2]] = tpe_comm_init
  /\ Calls[Modules[3]] = tpe_sequence_init
  /\ Calls[Modules[4]] = tpe_obj_init
  /\ Calls[Modules[5]] = tpe_orders_init
  /\ Calls[Modules[6]] = tpe_resources_init
  /\ Calls[Modules[7]] = tpe_board_init
  /\ Calls[Modules[8]] = tpe_ship_init
  /\ Len(Modules) = 8
BY DEF Calls, Modules

Parts == {"before", "handlers", "after", "sends"}

LEMMA RegisteredIs ==
  ASSUME NEW calls, DOMAIN calls = Parts, NEW updatemsg, NEW oidlist, NEW getmsg
  PROVE  LET made == Registered(calls, updatemsg, oidlist, getmsg)
         IN  /\ DOMAIN made = Parts
             /\ made.before = calls.before /\ made.after = calls.after
             /\ made.handlers = calls.handlers \cup {oidlist}
             /\ made.sends = calls.sends \cup {updatemsg, getmsg}
BY DEF Registered, Parts

LEMMA Needs ==
  /\ server_init.before = FrameNames /\ server_init.handlers = {} /\ server_init.sends = {}
  /\ tpe_comm_init.handlers = {"MsgAvailableFeatures", "MsgFail", "MsgTimeRemaining"}
  /\ {"NewTurn", "Connected"} \subseteq tpe_comm_init.after /\ tpe_comm_init.sends = {}
  /\ tpe_sequence_init.handlers = {"NewTurn", "Connected"} /\ tpe_sequence_init.sends = {}
  /\ tpe_obj_init.handlers = {"MsgObject", "MsgObjectDescription",
                              "MsgListOfObjectDescriptionIDs", "MsgListOfObjectIDs"}
  /\ {"ObjectNew", "ObjectChanged"} \subseteq tpe_obj_init.after
  /\ tpe_obj_init.sends = {"MsgGetObjectDescriptionIDs", "MsgGetObjectDescriptions",
                           "MsgGetObjectIDs", "MsgGetObjectsByID"}
  /\ tpe_orders_init.handlers = {"MsgOrderDescription", "MsgOrder", "ObjectChanged",
                                 "ObjectNew", "MsgOrderDescriptionIDs"}
  /\ tpe_orders_init.sends = {"MsgGetOrderDescriptionIDs", "MsgGetOrderDescription"}
  /\ tpe_resources_init.handlers = {"MsgResourceDescription",
                                    "MsgListOfResourceDescriptionsIDs"}
  /\ tpe_resources_init.sends = {"MsgGetResourceDescriptionIDs", "MsgGetResourceDescription"}
  /\ tpe_board_init.handlers = {"MsgBoard", "MsgMessage", "MsgListOfBoards"}
  /\ tpe_board_init.sends = {"MsgGetBoardIDs", "MsgGetBoards"}
  /\ tpe_ship_init.handlers = {"MsgDesign", "MsgListOfDesignIDs"}
  /\ tpe_ship_init.sends = {"MsgGetDesignIDs", "MsgGetDesign"}
<1>1. /\ server_init.before = FrameNames /\ server_init.handlers = {} /\ server_init.sends = {}
  BY DEF server_init, NoCalls
<1>2. /\ tpe_comm_init.handlers = {"MsgAvailableFeatures", "MsgFail", "MsgTimeRemaining"}
      /\ {"NewTurn", "Connected"} \subseteq tpe_comm_init.after /\ tpe_comm_init.sends = {}
  BY DEF tpe_comm_init, NoCalls
<1>3. tpe_sequence_init.handlers = {"NewTurn", "Connected"} /\ tpe_sequence_init.sends = {}
  BY DEF tpe_sequence_init, NoCalls
<1>4. /\ tpe_obj_init.handlers = {"MsgObject", "MsgObjectDescription",
                              "MsgListOfObjectDescriptionIDs", "MsgListOfObjectIDs"}
      /\ {"ObjectNew", "ObjectChanged"} \subseteq tpe_obj_init.after
      /\ tpe_obj_init.sends = {"MsgGetObjectDescriptionIDs", "MsgGetObjectDescriptions",
                               "MsgGetObjectIDs", "MsgGetObjectsByID"}
  <2> DEFINE own == [NoCalls EXCEPT
         !.handlers = {"MsgObject", "MsgObjectDescription"},
         !.after = {"ObjectNew", "ObjectChanged", "ObjectDelete",
                    "PlanetNoOrders", "PlanetColonised", "FleetNoOrders"}]
             first == Registered(own, "MsgGetObjectDescriptionIDs",
                                 "MsgListOfObjectDescriptionIDs", "MsgGetObjectDescriptions")
  <2>1. /\ DOMAIN own = Parts /\ own.handlers = {"MsgObject", "MsgObjectDescription"}
        /\ {"ObjectNew", "ObjectChanged"} \subseteq own.after /\ own.sends = {}
    BY DEF NoCalls, Parts
  <2>2. tpe_obj_init = Registered(first, "MsgGetObjectIDs", "MsgListOfObjectIDs", "MsgGetObjectsByID")
    BY DEF tpe_obj_init
  <2> HIDE DEF own
  <2>3. /\ DOMAIN first = Parts
        /\ first.handlers = {"MsgObject", "MsgObjectDescription", "MsgListOfObjectDescriptionIDs"}
        /\ {"ObjectNew", "ObjectChanged"} \subseteq first.after
        /\ first.sends = {"MsgGetObjectDescriptionIDs", "MsgGetObjectDescriptions"}
    BY <2>1, RegisteredIs
  <2> HIDE DEF first
  <2> QED BY <2>2, <2>3, RegisteredIs
<1>5. /\ tpe_orders_init.handlers = {"MsgOrderDescription", "MsgOrder", "ObjectChanged",
                                     "ObjectNew", "MsgOrderDescriptionIDs"}
      /\ tpe_orders_init.sends = {"MsgGetOrderDescriptionIDs", "MsgGetOrderDescription"}
  BY DEF tpe_orders_init, Registered, NoCalls
<1>6. /\ tpe_resources_init.handlers = {"MsgResourceDescription",
                                        "MsgListOfResourceDescriptionsIDs"}
      /\ tpe_resources_init.sends = {"MsgGetResourceDescriptionIDs", "MsgGetResourceDescription"}
  BY DEF tpe_resources_init, Registered, NoCalls
<1>7. /\ tpe_board_init.handlers = {"MsgBoard", "MsgMessage", "MsgListOfBoards"}
      /\ tpe_board_init.sends = {"MsgGetBoardIDs", "MsgGetBoards"}
  BY DEF tpe_board_init, Registered, NoCalls
<1>8. /\ tpe_ship_init.handlers = {"MsgDesign", "MsgListOfDesignIDs"}
      /\ tpe_ship_init.sends = {"MsgGetDesignIDs", "MsgGetDesign"}
  BY DEF tpe_ship_init, Registered, NoCalls
<1> QED BY <1>1, <1>2, <1>3, <1>4, <1>5, <1>6, <1>7, <1>8

(* Each module finds the types of its handlers.                            *)
LEMMA SetUpInv == IInv /\ SetUp => IInv'
<1> SUFFICES ASSUME IInv, SetUp PROVE IInv'
  OBVIOUS
<1> DEFINE n == Len(done)
           calls == Calls[Modules[n + 1]]
           known == types \cup calls.before
<1>1. /\ state = "setup" /\ n < Len(Modules)
      /\ done' = Append(done, Modules[n + 1])
      /\ types' = known \cup calls.after
      /\ handlers' = handlers \cup (calls.handlers \cap known)
      /\ unheard' = unheard \cup (calls.handlers \ known)
      /\ UNCHANGED <<argv, i, opt, talloced, state, started>>
  BY DEF SetUp
<1>2. /\ done \in Seq({Modules[k] : k \in 1..8})
      /\ n \in 0..7 /\ n + 1 \in 1..8 /\ unheard = {}
      /\ n >= 1 => FrameNames \subseteq types
      /\ n >= 2 => {"NewTurn", "Connected"} \subseteq types
      /\ n >= 4 => {"ObjectNew", "ObjectChanged"} \subseteq types
      /\ \A k \in 1..n : Calls[Modules[k]].handlers \subseteq handlers
  <2>1. ModulesDone
    BY DEF IInv
  <2>2. /\ done \in Seq({Modules[k] : k \in 1..8})
        /\ Len(done) <= 8 /\ unheard = {}
        /\ Len(done) >= 1 => FrameNames \subseteq types
        /\ Len(done) >= 2 => {"NewTurn", "Connected"} \subseteq types
        /\ Len(done) >= 4 => {"ObjectNew", "ObjectChanged"} \subseteq types
        /\ \A k \in 1..Len(done) : Calls[Modules[k]].handlers \subseteq handlers
    BY <2>1 DEF ModulesDone
  <2>3. Len(done) \in Nat
    <3> DEFINE S == {Modules[k] : k \in 1..8}
    <3>1. done \in Seq(S)
      BY <2>2
    <3> HIDE DEF S
    <3> QED BY <3>1
  <2>4. Len(Modules) = 8
    BY CallsOf
  <2>5. n \in 0..7 /\ n + 1 \in 1..8
    <3>1. n < Len(Modules)
      BY <1>1
    <3>2. n \in Nat /\ n < 8
      BY <2>3, <2>4, <3>1
    <3> HIDE DEF n
    <3> QED BY <3>2
  <2> QED BY <2>2, <2>5
<1>3. /\ Len(done') = n + 1
      /\ done' \in Seq({Modules[k] : k \in 1..8})
  <2> DEFINE m == Modules[n + 1]
             S == {Modules[k] : k \in 1..8}
  <2>1. m \in S /\ done \in Seq(S)
    BY <1>2
  <2> HIDE DEF m, S
  <2>2. Append(done, m) \in Seq(S) /\ Len(Append(done, m)) = n + 1
    BY <2>1
  <2> QED BY <1>1, <2>2 DEF m, S
<1>4. /\ calls.handlers \subseteq known
      /\ FrameNames \subseteq types'
      /\ n + 1 >= 2 => {"NewTurn", "Connected"} \subseteq types'
      /\ n + 1 >= 4 => {"ObjectNew", "ObjectChanged"} \subseteq types'
  <2>1. CASE n = 0
    <3>1. calls = server_init
      BY <1>1, <2>1, CallsOf
    <3> HIDE DEF calls, n
    <3> QED BY <1>1, <1>2, <2>1, <3>1, Needs
  <2>2. CASE n = 1
    <3>1. calls = tpe_comm_init
      BY <1>1, <2>2, CallsOf
    <3> HIDE DEF calls, n
    <3> QED BY <1>1, <1>2, <2>2, <3>1, Needs DEF FrameNames
  <2>3. CASE n = 2
    <3>1. calls = tpe_sequence_init
      BY <1>1, <2>3, CallsOf
    <3> HIDE DEF calls, n
    <3> QED BY <1>1, <1>2, <2>3, <3>1, Needs
  <2>4. CASE n = 3
    <3>1. calls = tpe_obj_init
      BY <1>1, <2>4, CallsOf
    <3> HIDE DEF calls, n
    <3> QED BY <1>1, <1>2, <2>4, <3>1, Needs DEF FrameNames
  <2>5. CASE n = 4
    <3>1. calls = tpe_orders_init
      BY <1>1, <2>5, CallsOf
    <3> HIDE DEF calls, n
    <3> QED BY <1>1, <1>2, <2>5, <3>1, Needs DEF FrameNames
  <2>6. CASE n = 5
    <3>1. calls = tpe_resources_init
      BY <1>1, <2>6, CallsOf
    <3> HIDE DEF calls, n
    <3> QED BY <1>1, <1>2, <2>6, <3>1, Needs DEF FrameNames
  <2>7. CASE n = 6
    <3>1. calls = tpe_board_init
      BY <1>1, <2>7, CallsOf
    <3> HIDE DEF calls, n
    <3> QED BY <1>1, <1>2, <2>7, <3>1, Needs DEF FrameNames
  <2>8. CASE n = 7
    <3>1. calls = tpe_ship_init
      BY <1>1, <2>8, CallsOf
    <3> HIDE DEF calls, n
    <3> QED BY <1>1, <1>2, <2>8, <3>1, Needs DEF FrameNames
  <2> QED BY <1>2, <2>1, <2>2, <2>3, <2>4, <2>5, <2>6, <2>7, <2>8
<1>5. \A k \in 1..(n + 1) : Calls[Modules[k]].handlers \subseteq handlers'
  <2> SUFFICES ASSUME NEW k \in 1..(n + 1) PROVE Calls[Modules[k]].handlers \subseteq handlers'
    OBVIOUS
  <2>1. CASE k = n + 1
    BY <1>1, <1>4, <2>1
  <2>2. CASE k \in 1..n
    BY <1>1, <1>2, <2>2
  <2> QED BY <1>2, <2>1, <2>2
<1>6. ModulesDone'
  BY <1>1, <1>2, <1>3, <1>4, <1>5 DEF ModulesDone
<1>7. Walk' /\ NamesFreed' /\ StartedAsOptions'
  BY <1>1, SameLine DEF IInv, Walk, NamesFreed, StartedAsOptions
<1>8. OptionsTold'
  BY <1>1, SameLine DEF IInv, OptionsTold, Told, ValueOf, Port
<1> QED BY <1>6, <1>7, <1>8 DEF IInv

LEMMA RunInv == IInv /\ Run => IInv'
<1> SUFFICES ASSUME IInv, Run PROVE IInv'
  OBVIOUS
<1>1. /\ state = "setup" /\ Len(done) = 8 /\ state' = "runs"
      /\ UNCHANGED <<argv, i, opt, talloced, done, types, handlers, unheard>>
  BY CallsOf DEF Run, setupVars
<1>2. Walk' /\ NamesFreed'
  BY <1>1, SameLine DEF IInv, Walk, NamesFreed
<1>3. OptionsTold'
  BY <1>1, SameLine DEF IInv, OptionsTold, Told, ValueOf, Port
<1>4. ModulesDone'
  BY <1>1 DEF IInv, ModulesDone
<1>5. StartedAsOptions'
  BY <1>1 DEF Run, StartedAsOptions
<1> QED BY <1>2, <1>3, <1>4, <1>5 DEF IInv

LEMMA RestInv == IInv /\ (BrowserSends \/ UNCHANGED vars) => IInv'
<1> SUFFICES ASSUME IInv, BrowserSends \/ UNCHANGED vars PROVE IInv'
  OBVIOUS
<1>1. UNCHANGED <<argv, i, opt, talloced, state, done, types, handlers, unheard>>
  BY DEF BrowserSends, vars, setupVars
<1>2. Walk' /\ NamesFreed'
  BY <1>1, SameLine DEF IInv, Walk, NamesFreed
<1>3. OptionsTold'
  BY <1>1, SameLine DEF IInv, OptionsTold, Told, ValueOf, Port
<1>4. ModulesDone'
  BY <1>1 DEF IInv, ModulesDone
<1>5. StartedAsOptions'
  <2>1. CASE BrowserSends
    <3>1. started.by = "browser"
      BY <2>1 DEF BrowserSends
    <3> QED BY <1>1, <3>1 DEF IInv, StartedAsOptions
  <2>2. CASE UNCHANGED vars
    BY <1>1, <2>2 DEF IInv, StartedAsOptions, vars
  <2> QED BY <2>1, <2>2
<1> QED BY <1>2, <1>3, <1>4, <1>5 DEF IInv

LEMMA InitInv == Init => IInv
<1> SUFFICES ASSUME Init PROVE IInv
  OBVIOUS
<1>1. argv \in Lines /\ argv \in Seq(Arguments) /\ Len(argv) \in Nat /\ i = 1 /\ opt = Defaults
  BY LinesAreSeqs DEF Init
<1>2. Walk
  BY <1>1 DEF Init, Walk
<1>3. Port("6923") = 6923
  BY NumberAssumption DEF Port
<1>4. \A field \in LoginFields : Told(field)
  <2>1. \A field : Saying(i - 1, field) = {}
    BY <1>1 DEF Saying
  <2>2. \A field \in LoginFields : opt[field] = ValueOf(field, DefaultText(field))
    BY <1>1, <1>3 DEF LoginFields, Defaults, ValueOf, DefaultText
  <2> QED BY <2>1, <2>2 DEF Told
<1>5. OptionsTold
  BY <1>1, <1>4 DEF OptionsTold, Defaults
<1>6. NamesFreed /\ ModulesDone /\ StartedAsOptions
  BY DEF Init, NamesFreed, ModulesDone, StartedAsOptions
<1> QED BY <1>2, <1>5, <1>6 DEF IInv

LEMMA StepInv == IInv /\ [Next]_vars => IInv'
BY ParseTextInv, ParseUsernameInv, ParsePortInv, ParseAiInv, ParseFlagInv, ParseExitsInv,
   ParseURLInv, ParseEndInv, SetUpInv, RunInv, RestInv DEF Next, Parse

-----------------------------------------------------------------------------

(* What holds of the walk over the arguments, of the options so far and of *)
(* the modules initialised so far in every state of main().                *)
THEOREM InductiveInvariant == Spec => []IInv
BY InitInv, StepInv, PTL DEF Spec

(* main() initialises the modules in an order in which each handler finds  *)
(* its event type, and each sequence the frames it sends.                  *)
THEOREM HandlersAreHeard == Spec => []EveryHandlerHeard
<1>1. IInv => EveryHandlerHeard
  <2> SUFFICES ASSUME IInv, state = "runs"
               PROVE  /\ unheard = {}
                      /\ \A k \in 1..Len(Modules) :
                           /\ Calls[Modules[k]].handlers \subseteq handlers
                           /\ Calls[Modules[k]].sends \subseteq FrameNames
    BY DEF EveryHandlerHeard
  <2>1. Len(Modules) = 8 /\ Len(done) = 8 /\ unheard = {}
        /\ \A k \in 1..8 : Calls[Modules[k]].handlers \subseteq handlers
    BY CallsOf DEF IInv, ModulesDone
  <2>2. ASSUME NEW k \in 1..8 PROVE Calls[Modules[k]].sends \subseteq FrameNames
    BY CallsOf, Needs DEF FrameNames
  <2> QED BY <2>1, <2>2
<1> QED BY <1>1, InductiveInvariant, PTL

(* parse_username() and parse_url() free only what is malloc()'s and       *)
(* parse_port() reads no NULL, on every plain command line.                *)
THEOREM PlainLinesAreSafe == Spec => []PlainNeverFaults
<1>1. IInv => PlainNeverFaults
  BY DEF IInv, NamesFreed, PlainNeverFaults
<1> QED BY <1>1, InductiveInvariant, PTL

(* What the arguments said last of each field is where and as whom the     *)
(* client logs in.                                                         *)
THEOREM LoginIsAsTold == Spec => []LogsInAsTold
<1>1. IInv => LogsInAsTold
  <2> SUFFICES ASSUME IInv, state = "runs", Plain,
                      \A k \in 1..Len(argv) : Handler(argv[k]) # "usebrowser"
               PROVE  /\ started.by = "comm"
                      /\ started.username = LastSaid("username", "nash")
                      /\ started.password = LastSaid("password", "password")
                      /\ started.server = LastSaid("server", "localhost")
                      /\ started.port = Port(LastSaid("port", "6923"))
    BY DEF LogsInAsTold
  <2>1. i - 1 = Len(argv) /\ Len(argv) \in Nat
    BY Line DEF IInv, Walk
  <2>2. ~opt.browse
    BY <2>1 DEF IInv, OptionsTold
  <2>3. ASSUME NEW field \in LoginFields
        PROVE  LET text == LastSaid(field, DefaultText(field))
               IN  opt[field] = ValueOf(field, text) /\ text # NoText
    <3> DEFINE said == Saying(i - 1, field)
               text == LastSaid(field, DefaultText(field))
    <3>1. text = LastOf(said, field, DefaultText(field))
      <4>1. text = LastOf({k \in 1..Len(argv) : Says(k, field) # NoText}, field, DefaultText(field))
        BY DEF LastSaid, LastOf
      <4>2. said = {k \in 1..Len(argv) : Says(k, field) # NoText}
        BY <2>1 DEF Saying
      <4> QED BY <4>1, <4>2
    <3>2. \/ said = {} /\ opt[field] = ValueOf(field, DefaultText(field))
          \/ \E k \in said : /\ \A m \in said : m <= k
                             /\ opt[field] = ValueOf(field, Says(k, field))
      BY DEF IInv, OptionsTold, Told
    <3>3. DefaultText(field) # NoText
      BY DEF DefaultText, NoText, LoginFields
    <3>4. said \subseteq Nat /\ \A m \in said : Says(m, field) # NoText
      BY <2>1 DEF Saying
    <3> HIDE DEF said, text
    <3>5. opt[field] = ValueOf(field, text) /\ text # NoText
      <4>1. CASE said = {}
        BY <3>1, <3>2, <3>3, <4>1 DEF LastOf
      <4>2. CASE said # {}
        <5>1. PICK k \in said : /\ \A m \in said : m <= k
                                /\ opt[field] = ValueOf(field, Says(k, field))
          BY <3>2, <4>2
        <5>2. \A x \in said : (\A m \in said : m <= x) => x = k
          BY <3>4, <5>1
        <5>3. (CHOOSE x \in said : \A m \in said : m <= x) = k
          BY <5>1, <5>2
        <5>4. text = Says(k, field)
          BY <3>1, <4>2, <5>3 DEF LastOf
        <5> QED BY <3>4, <5>1, <5>4
      <4> QED BY <4>1, <4>2
    <3> QED BY <3>5 DEF text
  <2>4. /\ opt["username"] = LastSaid("username", "nash")
        /\ opt["username"] # NoText
    BY <2>3 DEF LoginFields, ValueOf, DefaultText
  <2>5. /\ opt["password"] = LastSaid("password", "password")
        /\ opt["password"] # NoText
    BY <2>3 DEF LoginFields, ValueOf, DefaultText
  <2>6. /\ opt["server"] = LastSaid("server", "localhost")
        /\ opt["server"] # NoText
    BY <2>3 DEF LoginFields, ValueOf, DefaultText
  <2>7. opt["port"] = Port(LastSaid("port", "6923"))
    BY <2>3 DEF LoginFields, ValueOf, DefaultText
  <2>8. started = [by |-> "comm", server |-> opt.server, port |-> opt.port,
                   username |-> opt.username, password |-> opt.password, game |-> opt.game]
    BY <2>2, <2>4, <2>5, <2>6 DEF IInv, StartedAsOptions
  <2> QED BY <2>4, <2>5, <2>6, <2>7, <2>8
<1> QED BY <1>1, InductiveInvariant, PTL
=============================================================================
