------------------------ MODULE ClientConfiguration ------------------------
(***************************************************************************)
(* rmqsClientConfiguration.c: a configuration is made of a string with the *)
(* definitions of brokers, which are parsed into BrokerList, and is        *)
(* destroyed with all it owns.  In between the application may edit the    *)
(* list, and asks it for brokers as rmqsClientLogin does.                  *)
(***************************************************************************)
EXTENDS RmqsList, Broker

CONSTANTS
    Definition,     \* the definitions of brokers that are written
    MaxDefinitions, \* bound on the definitions in a string
    NewBroker,      \* the brokers that the application adds
    MaxEdited,      \* bound on the definitions of a configuration that is edited
    MaxBrokers      \* bound on the brokers in a list that is edited

Text == Seq(STRING)

ASSUME ConfigurationAssumption ==
    /\ {MaxDefinitions, MaxEdited, MaxBrokers} \subseteq Nat
    /\ Definition \subseteq [wellFormed : BOOLEAN, DBSchema : Text, Username : Text,
                             Password : Text, Hostname : Text, Port : STRING,
                             VirtualHost : Text]

VARIABLES
    memory,              \* see Memory
    ClientConfiguration, \* the address of the rmqsClientConfiguration_t, or 0
    written,             \* history: the definitions in the string
    call                 \* history: the last call and what it returned

configurationVars == <<memory, ClientConfiguration, written, call>>

Call(op, position, item, returned) ==
    [op |-> op, position |-> position, item |-> item, returned |-> returned]

Init ==
    /\ memory = NoMemory /\ ClientConfiguration = Null
    /\ written = << >> /\ call = Call("none", 0, Null, Null)

-----------------------------------------------------------------------------
(* The string.                                                             *)

\* How a definition is written; one that is not well formed is only a host name.
Render(d) ==
    IF d.wellFormed
    THEN d.DBSchema \o <<":", "/", "/">> \o d.Username \o <<":">> \o d.Password \o <<"@">>
           \o d.Hostname \o <<":", d.Port>> \o d.VirtualHost
    ELSE d.Hostname

BrokersString(definitions) ==
    LET string[n \in 0..Len(definitions)] ==
          IF n = 0 THEN << >>
          ELSE string[n - 1] \o (IF n = 1 THEN << >> ELSE <<";">>) \o Render(definitions[n])
    IN  string[Len(definitions)]

\* The string is cut at the separators, but its last character is always kept: a
\* separator at the end becomes a part of the last definition.
Split(string) ==
    LET cut[n \in 0..Len(string)] ==
          IF n = 0 THEN << << >> >>
          ELSE LET before == cut[n - 1]
               IN  IF string[n] = ";" /\ n < Len(string) THEN Append(before, << >>)
                   ELSE [before EXCEPT ![Len(before)] = Append(@, string[n])]
    IN  cut[Len(string)]

\* rmqsStringContainsSpace, and rmqsStringContainsCtrlChar
Rejected(string) == string = << >> \/ " " \in ToSet(string) \/ "\t" \in ToSet(string)

-----------------------------------------------------------------------------
(* The parts of a configuration.                                           *)

\* rmqsTimerCreate
TimerCreate(m) == AllocateMemory(m, Plain)

\* rmqsLoggerCreate: the logger, the name of the file, the mutex and the timer.
LoggerFields == <<"FileName", "Mutex", "Timer">>

LoggerCreate(m) ==
    AllocateEach(AllocateMemory(m, Block(1, [f \in ToSet(LoggerFields) |-> Null], 0)),
                 NewAddress(m), LoggerFields)

LoggerDestroy(m, a) == FreeWith(m, a, LoggerFields)

\* rmqsBrokerParse into a new broker, which is added to the list or freed again.
ParseInto(m, list, string) ==
    LET broker == NewAddress(m)
        parsed == BrokerParse(string)
        allocated == AllocateMemory(m, Block(1, NoPointers, parsed.broker))
    IN  IF parsed.ok THEN ListAddEnd(allocated, list, broker) ELSE FreeMemory(allocated, broker)

BrokerList(m, a) == PointerIn(m, a, "BrokerList")

ConfigurationDestroy(m, a) ==
    LET unlisted == ListDestroy(m, BrokerList(m, a))
        untimed == FreeMemory(unlisted, PointerIn(m, a, "WaitReplyTimer"))
        unlogged == IF PointerIn(m, a, "Logger") = Null THEN untimed
                    ELSE LoggerDestroy(untimed, PointerIn(m, a, "Logger"))
    IN  FreeMemory(unlogged, a)

\* A configuration with no brokers yet, which is new.
ConfigurationBegin(m, EnableLogging) ==
    LET a == NewAddress(m)
        bare == AllocateMemory(m, Block(1, [BrokerList |-> Null, WaitReplyTimer |-> Null,
                                            Logger |-> Null], 0))
        listed == SetPointer(ListCreate(bare), a, "BrokerList", NewAddress(bare))
        timed == SetPointer(TimerCreate(listed), a, "WaitReplyTimer", NewAddress(listed))
    IN  IF EnableLogging
        THEN SetPointer(LoggerCreate(timed), a, "Logger", NewAddress(timed))
        ELSE timed

\* The strings are copied and listed.
ListStrings(m, strings, parts) ==
    LET listed[n \in 0..Len(parts)] ==
          IF n = 0 THEN m
          ELSE LET before == listed[n - 1]
               IN  ListAddEnd(AllocateMemory(before, Block(1, NoPointers, parts[n])), strings,
                              NewAddress(before))
    IN  listed[Len(parts)]

\* Each of the listed strings is parsed.
ParseStrings(m, a, strings) ==
    LET parsed[n \in 0..Count(m, strings)] ==
          IF n = 0 THEN m
          ELSE LET before == parsed[n - 1]
               IN  ParseInto(before, BrokerList(before, a),
                             before.block[ListGetDataByPosition(before, strings, n - 1)].value)
    IN  parsed[Count(m, strings)]

\* The memory after rmqsClientConfigurationCreate of this string, and what it returns.
ConfigurationCreate(m, string, EnableLogging) ==
    LET a == NewAddress(m)
        begun == ConfigurationBegin(m, EnableLogging)
        strings == NewAddress(begun)
        split == ListStrings(ListCreate(begun), strings, Split(string))
        parsed == ParseStrings(split, a, strings)
        empty == Count(parsed, BrokerList(parsed, a)) = 0
    IN  [memory |-> ListDestroy(IF empty THEN ConfigurationDestroy(parsed, a) ELSE parsed, strings),
         returned |-> IF empty THEN Null ELSE a]

-----------------------------------------------------------------------------
(* The application.                                                        *)

list == BrokerList(memory, ClientConfiguration)

Create(definitions, EnableLogging) ==
    /\ ClientConfiguration = Null /\ written = << >>
    /\ LET string == BrokersString(definitions)
           created == IF Rejected(string) THEN [memory |-> memory, returned |-> Null]
                      ELSE ConfigurationCreate(memory, string, EnableLogging)
       IN  /\ memory' = created.memory /\ ClientConfiguration' = created.returned
           /\ call' = Call("Create", 0, Null, created.returned)
    /\ written' = definitions

\* rmqsClientConfigurationDestroy(0) does nothing.
Destroy ==
    /\ memory' = IF ClientConfiguration = Null THEN memory
                 ELSE ConfigurationDestroy(memory, ClientConfiguration)
    /\ ClientConfiguration' = Null
    /\ written' = << >> /\ call' = Call("Destroy", 0, Null, Null)

Edit(op, position, item, after) ==
    /\ Len(written) <= MaxEdited
    /\ memory' = after /\ call' = Call(op, position, item, Null)
    /\ UNCHANGED <<ClientConfiguration, written>>

\* rmqsBrokerCreate, which refuses port 0, and the broker is added to the list.
AddBroker ==
    /\ ClientConfiguration # Null /\ Count(memory, list) < MaxBrokers
    /\ \E b \in NewBroker :
         /\ b.Port # 0
         /\ LET broker == NewAddress(memory)
                m == AllocateMemory(memory, Block(1, NoPointers, b))
            IN  \/ Edit("AddBegin", 0, broker, ListAddBegin(m, list, broker))
                \/ Edit("AddEnd", 0, broker, ListAddEnd(m, list, broker))
                \/ \E position \in 0..MaxBrokers :
                     Edit("AddPosition", position, broker,
                          ListAddPosition(m, list, position, broker))

DeleteBroker ==
    /\ ClientConfiguration # Null
    /\ \/ Edit("DeleteBegin", 0, Null, ListDeleteBegin(memory, list))
       \/ Edit("DeleteEnd", 0, Null, ListDeleteEnd(memory, list))
       \/ \E position \in 0..MaxBrokers :
            Edit("DeletePosition", position, Null, ListDeletePosition(memory, list, position))
       \/ \E item \in ToSet(Items(memory, list)) :
            Edit("DeleteData", 0, item, ListDeleteData(memory, list, item))

\* rmqsClientLogin looks for its broker by index.
SearchBroker ==
    /\ ClientConfiguration # Null
    /\ \/ \E position \in 0..MaxBrokers :
            call' = Call("GetDataByPosition", position, Null,
                         ListGetDataByPosition(memory, list, position))
       \/ \E item \in ToSet(Items(memory, list)) :
            LET node == ListSearchByData(memory, list, item)
            IN  call' = Call("SearchByData", 0, item,
                             IF node = Null THEN Null ELSE Data(memory, node))
    /\ UNCHANGED <<memory, ClientConfiguration, written>>

ConfigurationNext ==
    \/ \E definitions \in SeqOf(Definition, MaxDefinitions), EnableLogging \in BOOLEAN :
         Create(definitions, EnableLogging)
    \/ Destroy \/ AddBroker \/ DeleteBroker \/ SearchBroker

Spec == Init /\ [][ConfigurationNext]_configurationVars
-----------------------------------------------------------------------------
(* Properties.                                                             *)

BrokerItems == IF ClientConfiguration = Null THEN << >> ELSE Items(memory, list)

\* Pointers lead to blocks, and Count is the number of nodes that First leads to.
TypeOK ==
    /\ DOMAIN memory = {"block", "TotalUsedMemory"} /\ memory.TotalUsedMemory \in Nat
    /\ NoDangling(memory) /\ ClientConfiguration \in Live(memory) \cup {Null}
    /\ ClientConfiguration # Null => Count(memory, list) = Len(BrokerItems)
    /\ written \in Seq(Definition)

\* The list of brokers behaves as a sequence under all the operations of rmqsList.c,
\* at the ends and past them.
Sequence == INSTANCE ListSpec WITH
    None <- Null, items <- BrokerItems, call <- call

ImplementsList == Sequence!List

\* What is written in a definition, in lower case.
Meaning(d) ==
    [DBSchema |-> ToLower(d.DBSchema), Username |-> ToLower(d.Username),
     Password |-> ToLower(d.Password), Hostname |-> ToLower(d.Hostname),
     Port |-> PortNumber[d.Port],
     VirtualHost |-> IF d.VirtualHost = << >> THEN <<"/">> ELSE ToLower(d.VirtualHost),
     UseTLS |-> "+tls" \in ToSet(d.DBSchema)]

WellFormed == SelectSeq(written, LAMBDA d : d.wellFormed)

EndsWithSeparator(string) == string # << >> /\ Last(string) = ";"

\* A new configuration has the brokers that are written, in order and each with its
\* own fields in lower case, as strstr finds them: a definition that is not well formed
\* is passed over, and only if there is no other, or the string has a space in it, no
\* configuration is made.  (Of a string that ends with a separator this is not said.)
BrokersAsWritten ==
    call.op = "Create" /\ ~EndsWithSeparator(BrokersString(written)) =>
        IF Rejected(BrokersString(written)) \/ WellFormed = << >>
        THEN ClientConfiguration = Null
        ELSE [k \in DOMAIN BrokerItems |-> memory.block[BrokerItems[k]].value]
               = [k \in DOMAIN WellFormed |-> Meaning(WellFormed[k])]
=============================================================================
