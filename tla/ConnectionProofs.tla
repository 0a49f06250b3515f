---- MODULE ConnectionProofs ----
(***************************************************************************)
(* Proofs about Settings and PtpConnection, for any number of settings       *)
(* values, GUIDs, restarts and failing saves.                                *)
(***************************************************************************)
EXTENDS PtpConnection, TLAPS

Lookup(t, k) == IF k \in DOMAIN t THEN t[k] ELSE Unset

\* What a key may read as.
Fine(v, k) == v = last[k] \/ (interrupted /\ v \in {Unset, Cut})

\* The table is right whenever there is one, the file whenever it is not being
\* written.
SettingsInv ==
    /\ SettingsTypeOK
    /\ ~refused /\ table # Nothing => \A k \in Keys : Fine(Lookup(table, k), k)
    /\ ~refused /\ ~saving => \A k \in Keys : Fine(Lookup(Loaded, k), k)
    /\ saving => table # Nothing

\* A table is a function from some of the keys.
LEMMA TableShape ==
    ASSUME NEW t
    PROVE  t \in Table <=> /\ DOMAIN t \subseteq Keys
                           /\ t = [k \in DOMAIN t |-> t[k]]
                           /\ \A k \in DOMAIN t : t[k] \in Values \cup {Cut}
<1>1. ASSUME t \in Table
      PROVE  /\ DOMAIN t \subseteq Keys /\ t = [k \in DOMAIN t |-> t[k]]
             /\ \A k \in DOMAIN t : t[k] \in Values \cup {Cut}
  <2>1. PICK K \in SUBSET Keys : t \in [K -> Values \cup {Cut}]
    BY <1>1 DEF Table
  <2> QED
    BY <2>1
<1>2. ASSUME DOMAIN t \subseteq Keys, t = [k \in DOMAIN t |-> t[k]],
             \A k \in DOMAIN t : t[k] \in Values \cup {Cut}
      PROVE  t \in Table
  <2>1. t \in [DOMAIN t -> Values \cup {Cut}]
    BY <1>2
  <2> QED
    BY <1>2, <2>1 DEF Table
<1> QED
  BY <1>1, <1>2

LEMMA NothingShape ==
    /\ Nothing \in Table /\ DOMAIN Nothing = {}
    /\ Erased \in [lines : Table, damaged : BOOLEAN]
<1>1. DOMAIN Nothing = {}
  BY DEF Nothing
<1>2. Nothing \in [{} -> Values \cup {Cut}]
  BY DEF Nothing
<1>3. Nothing \in Table
  BY <1>2 DEF Table
<1>4. Erased \in [lines : Table, damaged : BOOLEAN]
  BY <1>3 DEF Erased
<1> QED
  BY <1>1, <1>3, <1>4

\* What load_settings yields is a table, and so is the table in use.
LEMMA CurrentShape ==
    ASSUME SettingsTypeOK
    PROVE  Loaded \in Table /\ Current \in Table
BY NothingShape DEF SettingsTypeOK, Loaded, Current

\* Everything an interrupted save can leave in the file is readable.
LEMMA FragmentShape ==
    ASSUME SettingsTypeOK, NEW f \in Fragments
    PROVE  /\ f \in [lines : Table, damaged : BOOLEAN]
           /\ \A k \in Keys : Lookup(f.lines, k) \in {Lookup(table, k), Unset, Cut}
<1>0. /\ DOMAIN table \subseteq Keys
      /\ \A k \in DOMAIN table : table[k] \in Values \cup {Cut}
  BY TableShape DEF SettingsTypeOK
<1>1. ASSUME NEW K \in SUBSET DOMAIN table, NEW d \in BOOLEAN, f = Written(K, d)
      PROVE  /\ f \in [lines : Table, damaged : BOOLEAN]
             /\ \A k \in Keys : Lookup(f.lines, k) \in {Lookup(table, k), Unset, Cut}
  <2> DEFINE g == [k \in K |-> table[k]]
  <2>1. g \in Table
    BY <1>0, TableShape
  <2>2. \A k \in Keys : Lookup(g, k) \in {Lookup(table, k), Unset, Cut}
    BY DEF Lookup
  <2>3. f = [lines |-> g, damaged |-> d]
    BY <1>1 DEF Written
  <2> HIDE DEF g
  <2> QED
    BY <2>1, <2>2, <2>3
<1>2. ASSUME NEW K \in SUBSET DOMAIN table, NEW c \in DOMAIN table, f = Torn(K, c)
      PROVE  /\ f \in [lines : Table, damaged : BOOLEAN]
             /\ \A k \in Keys : Lookup(f.lines, k) \in {Lookup(table, k), Unset, Cut}
  <2> DEFINE g == [k \in K \cup {c} |-> IF k = c THEN Cut ELSE table[k]]
  <2>1. g \in Table
    BY <1>0, TableShape
  <2>2. \A k \in Keys : Lookup(g, k) \in {Lookup(table, k), Unset, Cut}
    BY DEF Lookup
  <2>3. f = [lines |-> g, damaged |-> FALSE]
    BY <1>2 DEF Torn
  <2> HIDE DEF g
  <2> QED
    BY <2>1, <2>2, <2>3
<1>3. \/ \E K \in SUBSET DOMAIN table, d \in BOOLEAN : f = Written(K, d)
      \/ \E K \in SUBSET DOMAIN table, c \in DOMAIN table : f = Torn(K, c)
  BY DEF Fragments
<1> QED
  BY <1>1, <1>2, <1>3

\* The settings steps keep the invariant.
LEMMA SetStep ==
    ASSUME SettingsInv, NEW k \in Keys, NEW v \in Values, Set(k, v)
    PROVE  SettingsInv'
<1>1. SettingsTypeOK /\ Current \in Table /\ ~saving
  BY CurrentShape DEF SettingsInv, Set
<1>2. table' = [x \in DOMAIN Current \cup {k} |-> IF x = k THEN v ELSE Current[x]]
  BY DEF Set
<1>3. /\ DOMAIN Current \subseteq Keys
      /\ \A x \in DOMAIN Current : Current[x] \in Values \cup {Cut}
  BY <1>1, TableShape
<1>4. table' \in Table /\ table' # Nothing
  BY <1>2, <1>3, TableShape, NothingShape
<1>5. last' = [last EXCEPT ![k] = v] /\ last \in [Keys -> Values \cup {Unset}]
  BY <1>1 DEF Set, SettingsTypeOK
<1>6. SettingsTypeOK'
  <2>1. table' \in Table /\ last' \in [Keys -> Values \cup {Unset}]
    BY <1>4, <1>5
  <2>2. file' \in [lines : Table, damaged : BOOLEAN]
    <3>1. file' \in {Erased, file}
      BY DEF Set
    <3>2. file \in [lines : Table, damaged : BOOLEAN]
      BY <1>1 DEF SettingsTypeOK
    <3> QED
      BY <3>1, <3>2, NothingShape
  <2>3. saving' \in BOOLEAN /\ interrupted' \in BOOLEAN /\ refused' \in BOOLEAN
    BY <1>1 DEF Set, SettingsTypeOK
  <2>4. trouble' \in 0 .. MaxTrouble
    BY <1>1, SettingsAssumption DEF Set, SettingsTypeOK
  <2> QED
    BY <2>1, <2>2, <2>3, <2>4 DEF SettingsTypeOK
<1>7. ASSUME ~refused' PROVE \A x \in Keys : Fine(Lookup(table, x), x)'
  <2>1. ~refused /\ interrupted' = interrupted
    BY <1>7 DEF Set
  <2>2. \A x \in Keys : Fine(Lookup(Current, x), x)
    BY <1>1, <2>1 DEF SettingsInv, Current
  <2>3. ASSUME NEW x \in Keys
        PROVE  Lookup(table', x) = IF x = k THEN v ELSE Lookup(Current, x)
    BY <1>2 DEF Lookup
  <2> QED
    BY <1>5, <2>1, <2>2, <2>3 DEF Fine, Lookup
<1>8. ~refused' => saving'
  BY DEF Set
<1> QED
  BY <1>4, <1>6, <1>7, <1>8 DEF SettingsInv

LEMMA SaveStep ==
    ASSUME SettingsInv, Save \/ SaveFails
    PROVE  SettingsInv'
<1>1. SettingsTypeOK /\ table # Nothing /\ UNCHANGED <<table, last, refused>> /\ ~saving'
  BY DEF SettingsInv, Save, SaveFails
<1>2. CASE Save
  <2>1. file' = [lines |-> table, damaged |-> FALSE] /\ interrupted' = interrupted
    BY <1>2 DEF Save
  <2>2. Loaded' = table
    BY <2>1 DEF Loaded
  <2>3. SettingsTypeOK'
    <3>1. table' \in Table /\ last' \in [Keys -> Values \cup {Unset}]
      BY <1>1 DEF SettingsTypeOK
    <3>2. file' \in [lines : Table, damaged : BOOLEAN]
      BY <1>1, <2>1 DEF SettingsTypeOK
    <3>3. saving' \in BOOLEAN /\ interrupted' \in BOOLEAN /\ refused' \in BOOLEAN
      BY <1>1, <1>2, <2>1 DEF SettingsTypeOK, Save
    <3>4. trouble' \in 0 .. MaxTrouble
      BY <1>1, <1>2, SettingsAssumption DEF SettingsTypeOK, Save
    <3> QED
      BY <3>1, <3>2, <3>3, <3>4 DEF SettingsTypeOK
  <2> QED
    BY <1>1, <2>1, <2>2, <2>3 DEF SettingsInv, Fine, Lookup
<1>3. CASE SaveFails
  <2>1. file' \in Fragments /\ interrupted' = TRUE
    BY <1>3 DEF SaveFails
  <2>2. /\ file' \in [lines : Table, damaged : BOOLEAN]
        /\ \A k \in Keys : Lookup(file'.lines, k) \in {Lookup(table, k), Unset, Cut}
    BY <1>1, <2>1, FragmentShape
  <2>3. SettingsTypeOK'
    <3>1. table' \in Table /\ last' \in [Keys -> Values \cup {Unset}]
      BY <1>1 DEF SettingsTypeOK
    <3>2. file' \in [lines : Table, damaged : BOOLEAN]
      BY <2>2 DEF SettingsTypeOK
    <3>3. saving' \in BOOLEAN /\ interrupted' \in BOOLEAN /\ refused' \in BOOLEAN
      BY <1>1, <1>3, <2>1 DEF SettingsTypeOK, SaveFails
    <3>4. trouble' \in 0 .. MaxTrouble
      BY <1>1, <1>3, SettingsAssumption DEF SettingsTypeOK, SaveFails
    <3> QED
      BY <3>1, <3>2, <3>3, <3>4 DEF SettingsTypeOK
  <2>4. \A k \in Keys : Lookup(Loaded', k) \in {Lookup(table, k), Unset, Cut}
    BY <2>2, NothingShape DEF Loaded, Lookup
  <2>5. ~refused => \A k \in Keys : Lookup(table, k) \in {last[k], Unset, Cut}
    BY <1>1 DEF SettingsInv, Fine
  <2> QED
    BY <1>1, <2>1, <2>3, <2>4, <2>5 DEF SettingsInv, Fine, Lookup
<1> QED
  BY <1>2, <1>3

LEMMA RestartStep ==
    ASSUME SettingsInv, Restart
    PROVE  SettingsInv'
<1>1. SettingsTypeOK /\ table' = Nothing /\ ~saving' /\ UNCHANGED <<last, refused>>
  BY DEF SettingsInv, Restart
<1>2. CASE saving
  <2>1. file' \in Fragments /\ interrupted' = TRUE
    BY <1>2 DEF Restart
  <2>2. /\ file' \in [lines : Table, damaged : BOOLEAN]
        /\ \A k \in Keys : Lookup(file'.lines, k) \in {Lookup(table, k), Unset, Cut}
    BY <1>1, <2>1, FragmentShape
  <2>3. SettingsTypeOK'
    <3>1. table' \in Table /\ last' \in [Keys -> Values \cup {Unset}]
      BY <1>1, NothingShape DEF SettingsTypeOK
    <3>2. file' \in [lines : Table, damaged : BOOLEAN]
      BY <2>2 DEF SettingsTypeOK
    <3>3. saving' \in BOOLEAN /\ interrupted' \in BOOLEAN /\ refused' \in BOOLEAN
      BY <1>1, <2>1 DEF SettingsTypeOK, Restart
    <3>4. trouble' \in 0 .. MaxTrouble
      BY <1>1, SettingsAssumption DEF SettingsTypeOK, Restart
    <3> QED
      BY <3>1, <3>2, <3>3, <3>4 DEF SettingsTypeOK
  <2>4. \A k \in Keys : Lookup(Loaded', k) \in {Lookup(table, k), Unset, Cut}
    BY <2>2, NothingShape DEF Loaded, Lookup
  <2>5. ~refused => \A k \in Keys : Lookup(table, k) \in {last[k], Unset, Cut}
    BY <1>2 DEF SettingsInv, Fine
  <2> QED
    BY <1>1, <2>1, <2>3, <2>4, <2>5 DEF SettingsInv, Fine, Lookup
<1>3. CASE ~saving
  <2>1. UNCHANGED <<file, interrupted>>
    BY <1>3 DEF Restart
  <2>2. SettingsTypeOK'
    <3>1. table' \in Table /\ last' \in [Keys -> Values \cup {Unset}]
      BY <1>1, NothingShape DEF SettingsTypeOK
    <3>2. file' \in [lines : Table, damaged : BOOLEAN]
      BY <1>1, <2>1 DEF SettingsTypeOK
    <3>3. saving' \in BOOLEAN /\ interrupted' \in BOOLEAN /\ refused' \in BOOLEAN
      BY <1>1, <2>1 DEF SettingsTypeOK, Restart
    <3>4. trouble' \in 0 .. MaxTrouble
      BY <1>1, SettingsAssumption DEF SettingsTypeOK, Restart
    <3> QED
      BY <3>1, <3>2, <3>3, <3>4 DEF SettingsTypeOK
  <2>3. Loaded' = Loaded
    BY <2>1 DEF Loaded
  <2> QED
    BY <1>1, <1>3, <2>1, <2>2, <2>3 DEF SettingsInv, Fine, Lookup
<1> QED
  BY <1>2, <1>3

(***************************************************************************)
(* Connecting                                                               *)
(***************************************************************************)
\* What the sockets, the acknowledgement and the session have to do with the phase.
LinkInv ==
    /\ acked => cmd = "connected"
    /\ pc \in {"guid", "request", "ack", "again", "event", "eventrequest"} =>
         cmd = "connected"
    /\ acked /\ pc \in {"init", "fujievent", "jpeg", "info"} => session
    /\ ~fuji /\ acked /\ pc \in {"session", "info"} => evt = "connected"
    /\ ~fuji /\ pc = "eventrequest" => evt = "connected"
    /\ pc \in {"again", "init", "fujievent", "jpeg"} => fuji

\* What the GUID settings and the cameras that were met have to do with each other.
GuidInv ==
    /\ pc \notin {"idle", "hostname"} => table # Nothing
    /\ pc = "request" /\ ~fuji => Lookup(table, "guid") \in Guids
    /\ ~interrupted /\ ~refused => \A g \in met : g = last["guid"]

PhaseOK == pc \in Phases /\ tries \in 0 .. HandshakeTries
SocketsOK == cmd \in Sockets /\ evt \in Sockets /\ jpg \in Sockets
FlagsOK == fuji \in BOOLEAN /\ acked \in BOOLEAN /\ session \in BOOLEAN

ConnectionInv ==
    /\ SettingsInv
    /\ PhaseOK /\ SocketsOK /\ FlagsOK
    /\ met \subseteq Guids
    /\ LinkInv
    /\ GuidInv

\* What a step does to the settings.
LEMMA SettingsMoves ==
    ASSUME [Next]_vars
    PROVE  \/ UNCHANGED settings
           \/ \E k \in Keys, v \in Values : Set(k, v)
           \/ Save \/ SaveFails
           \/ Restart
<1>1. {"hostname", "fuji_mode", "guid"} \subseteq Keys
  BY ConnectionAssumption
<1>2. Host \in Values /\ Modes \subseteq Values /\ Guids \subseteq Values
  BY ConnectionAssumption
<1>3. CASE SetHostname
  BY <1>1, <1>2, <1>3 DEF SetHostname
<1>4. CASE SetMode
  BY <1>1, <1>2, <1>4 DEF SetMode
<1>5. CASE Guid
  BY <1>1, <1>2, <1>5 DEF Guid
<1>6. CASE Saving
  BY <1>6 DEF Saving
<1>7. CASE Crash
  BY <1>7 DEF Crash
<1>8. CASE Start \/ GiveUp \/ Disconnect \/ LinkLost \/ UNCHANGED vars
  BY <1>8 DEF Start, GiveUp, Disconnect, LinkLost, vars
<1>9. CASE \/ ConnectCommand \/ Request \/ Ack \/ AskAgain
           \/ ConnectEvent \/ EventRequest
  BY <1>9 DEF ConnectCommand, Request, Ack, AskAgain, ConnectEvent, EventRequest
<1>10. CASE CameraInit
  BY <1>10 DEF CameraInit, OpenSession, FujiInit, ConnectFujiEvent, ConnectJpeg,
               DeviceInfo
<1> QED
  BY <1>3, <1>4, <1>5, <1>6, <1>7, <1>8, <1>9, <1>10
     DEF Next, Connecting, Handshake

LEMMA SettingsKept ==
    ASSUME SettingsInv, [Next]_vars
    PROVE  SettingsInv'
<1>1. CASE UNCHANGED settings
  BY <1>1 DEF settings, SettingsInv, SettingsTypeOK, Fine, Lookup, Loaded
<1> QED
  BY <1>1, SettingsMoves, SetStep, SaveStep, RestartStep

\* The table that is in use, once there is one.
LEMMA ValueOfTable ==
    ASSUME table # Nothing, NEW k
    PROVE  Value(k) = Lookup(table, k)
BY DEF Value, Lookup, Current

\* A setting reads as it was last set, or as a disturbed save left it.
LEMMA ValueFine ==
    ASSUME SettingsInv, ~refused, ~saving \/ table # Nothing, NEW k \in Keys
    PROVE  Fine(Value(k), k)
BY DEF SettingsInv, Value, Lookup, Current

\* No loop tries more often than the longest one.
LEMMA PhaseStep ==
    ASSUME PhaseOK, [Next]_vars
    PROVE  PhaseOK'
<1> USE DEF PhaseOK, Go, link, Phases, HandshakeTries, EventTries, SessionTries, OtherTries
<1>1. CASE SetHostname \/ SetMode \/ Guid \/ Saving \/ Crash
  BY <1>1 DEF SetHostname, SetMode, Guid, Saving, Crash
<1>2. CASE Start \/ GiveUp
  BY <1>2 DEF Start, GiveUp
<1>3. CASE ConnectCommand \/ Request \/ Ack
  BY <1>3 DEF ConnectCommand, Request, Ack, CloseBoth
<1>4. CASE AskAgain \/ ConnectEvent \/ EventRequest
  BY <1>4 DEF AskAgain, ConnectEvent, EventRequest, CloseBoth
<1>5. CASE OpenSession
  <2>1. CASE Opened
    BY <2>1 DEF Opened
  <2>2. CASE pc' = "failed" /\ tries' = 0
    BY <2>2
  <2>3. CASE pc' = pc /\ tries' = tries + 1 /\ (tries + 1 < 10 \/ tries + 1 < 3)
    BY <2>3
  <2> QED
    BY <1>5, <2>1, <2>2, <2>3 DEF OpenSession
<1>6. CASE FujiInit \/ ConnectFujiEvent \/ ConnectJpeg \/ DeviceInfo
  BY <1>6 DEF FujiInit, ConnectFujiEvent, ConnectJpeg, DeviceInfo
<1>7. CASE UNCHANGED vars
  BY <1>7 DEF vars
<1>8. CASE Disconnect
  BY <1>8 DEF Disconnect, CloseBoth
<1>9. CASE LinkLost
  BY <1>9 DEF LinkLost
<1> QED
  BY <1>1, <1>2, <1>3, <1>4, <1>5, <1>6, <1>7, <1>8, <1>9
     DEF Next, Connecting, Handshake, CameraInit

LEMMA SocketsStep ==
    ASSUME SocketsOK, [Next]_vars
    PROVE  SocketsOK'
<1> USE DEF SocketsOK, Go, link, Sockets
<1>1. CASE SetHostname \/ SetMode \/ Guid \/ Saving \/ Crash
  BY <1>1 DEF SetHostname, SetMode, Guid, Saving, Crash
<1>2. CASE Start \/ GiveUp
  BY <1>2 DEF Start, GiveUp
<1>3. CASE ConnectCommand \/ Request \/ Ack
  BY <1>3 DEF ConnectCommand, Request, Ack, CloseBoth
<1>4. CASE AskAgain \/ ConnectEvent \/ EventRequest
  BY <1>4 DEF AskAgain, ConnectEvent, EventRequest, CloseBoth
<1>5. CASE OpenSession
  BY <1>5 DEF OpenSession, Opened
<1>6. CASE FujiInit \/ ConnectFujiEvent \/ ConnectJpeg \/ DeviceInfo
  BY <1>6 DEF FujiInit, ConnectFujiEvent, ConnectJpeg, DeviceInfo
<1>7. CASE UNCHANGED vars
  BY <1>7 DEF vars
<1>8. CASE Disconnect
  BY <1>8 DEF Disconnect, CloseBoth
<1>9. CASE LinkLost
  BY <1>9 DEF LinkLost
<1> QED
  BY <1>1, <1>2, <1>3, <1>4, <1>5, <1>6, <1>7, <1>8, <1>9
     DEF Next, Connecting, Handshake, CameraInit

LEMMA FlagsStep ==
    ASSUME FlagsOK, [Next]_vars
    PROVE  FlagsOK'
<1> USE DEF FlagsOK, Go, link
<1>1. CASE SetHostname \/ SetMode \/ Guid \/ Saving \/ Crash
  BY <1>1 DEF SetHostname, SetMode, Guid, Saving, Crash
<1>2. CASE Start \/ GiveUp
  BY <1>2 DEF Start, GiveUp
<1>3. CASE ConnectCommand \/ Request \/ Ack
  BY <1>3 DEF ConnectCommand, Request, Ack, CloseBoth
<1>4. CASE AskAgain \/ ConnectEvent \/ EventRequest
  BY <1>4 DEF AskAgain, ConnectEvent, EventRequest, CloseBoth
<1>5. CASE OpenSession
  BY <1>5 DEF OpenSession, Opened
<1>6. CASE FujiInit \/ ConnectFujiEvent \/ ConnectJpeg \/ DeviceInfo
  BY <1>6 DEF FujiInit, ConnectFujiEvent, ConnectJpeg, DeviceInfo
<1>7. CASE UNCHANGED vars
  BY <1>7 DEF vars
<1>8. CASE Disconnect
  BY <1>8 DEF Disconnect, CloseBoth
<1>9. CASE LinkLost
  BY <1>9 DEF LinkLost
<1> QED
  BY <1>1, <1>2, <1>3, <1>4, <1>5, <1>6, <1>7, <1>8, <1>9
     DEF Next, Connecting, Handshake, CameraInit

\* The phase, the sockets and the camera stay in step.
LEMMA LinkStep ==
    ASSUME FlagsOK, LinkInv, [Next]_vars
    PROVE  LinkInv'
<1> USE DEF LinkInv, Go, link, FlagsOK
<1>1. CASE SetHostname \/ SetMode \/ Guid \/ Saving \/ Crash
  BY <1>1 DEF SetHostname, SetMode, Guid, Saving, Crash
<1>2. CASE Start \/ GiveUp
  BY <1>2 DEF Start, GiveUp
<1>3. CASE ConnectCommand \/ Request \/ Ack
  BY <1>3 DEF ConnectCommand, Request, Ack, CloseBoth
<1>4. CASE AskAgain \/ ConnectEvent \/ EventRequest
  BY <1>4 DEF AskAgain, ConnectEvent, EventRequest, CloseBoth
<1>5. CASE OpenSession
  BY <1>5 DEF OpenSession, Opened
<1>6. CASE FujiInit \/ ConnectFujiEvent \/ ConnectJpeg \/ DeviceInfo
  BY <1>6 DEF FujiInit, ConnectFujiEvent, ConnectJpeg, DeviceInfo
<1>7. CASE UNCHANGED vars
  BY <1>7 DEF vars
<1>8. CASE Disconnect
  BY <1>8 DEF Disconnect, CloseBoth
<1>9. CASE LinkLost
  BY <1>9 DEF LinkLost
<1> QED
  BY <1>1, <1>2, <1>3, <1>4, <1>5, <1>6, <1>7, <1>8, <1>9
     DEF Next, Connecting, Handshake, CameraInit

\* A camera that has been met knows the GUID that is in the settings.
LEMMA GuidStep ==
    ASSUME SettingsInv, met \subseteq Guids, PhaseOK, GuidInv, [Next]_vars
    PROVE  met' \subseteq Guids /\ GuidInv'
<1>0. /\ "guid" \in Keys /\ "hostname" \in Keys /\ "fuji_mode" \in Keys
      /\ Unset \notin Guids /\ Cut \notin Guids /\ last \in [Keys -> Values \cup {Unset}]
  BY SettingsAssumption, ConnectionAssumption DEF SettingsInv, SettingsTypeOK
<1>1. CASE SetHostname \/ SetMode
  <2>1. PICK k \in {"hostname", "fuji_mode"}, v \in Modes \cup {Host} : Set(k, v)
    BY <1>1 DEF SetHostname, SetMode
  <2>2. /\ table' = [x \in DOMAIN Current \cup {k} |-> IF x = k THEN v ELSE Current[x]]
        /\ last' = [last EXCEPT ![k] = v]
        /\ interrupted' = interrupted /\ (~refused' => ~refused)
    BY <2>1 DEF Set
  <2>3. table' # Nothing
    <3>1. k \in DOMAIN table'
      BY <2>2
    <3> QED
      BY <3>1, NothingShape
  <2>4. last'["guid"] = last["guid"]
    BY <1>0, <2>1, <2>2
  <2>5. met' = met /\ pc' \in {"mode", "connect"}
    BY <1>1 DEF SetHostname, SetMode, Go
  <2> QED
    BY <2>2, <2>3, <2>4, <2>5 DEF GuidInv
<1>2. CASE Guid /\ Value("guid") \in Guids
  <2>1. UNCHANGED <<table, last, interrupted, refused, met>> /\ pc = "guid"
    BY <1>2 DEF Guid, settings
  <2>2. table # Nothing /\ Lookup(table, "guid") \in Guids
    BY <1>2, <2>1, ValueOfTable DEF GuidInv
  <2> QED
    BY <2>1, <2>2 DEF GuidInv, Lookup
<1>3. CASE Guid /\ Value("guid") \notin Guids
  <2>1. PICK g \in Guids : Set("guid", g)
    BY <1>3 DEF Guid
  <2>2. /\ table' = [x \in DOMAIN Current \cup {"guid"} |-> IF x = "guid" THEN g
                                                            ELSE Current[x]]
        /\ last' = [last EXCEPT !["guid"] = g]
        /\ interrupted' = interrupted /\ (~refused' => ~refused) /\ ~saving
    BY <2>1 DEF Set
  <2>3. /\ "guid" \in DOMAIN table' /\ table'["guid"] = g /\ last'["guid"] = g
    BY <1>0, <2>2
  <2>4. table' # Nothing /\ Lookup(table, "guid")' = g
    BY <2>3, NothingShape DEF Lookup
  <2>5. met' = met
    BY <1>3 DEF Guid
  <2>6. ~interrupted /\ ~refused => Value("guid") = last["guid"]
    BY <1>0, <2>2, ValueFine DEF Fine
  <2>7. ~interrupted /\ ~refused => \A h \in met : h \in Guids /\ h = last["guid"]
    BY DEF GuidInv
  <2>8. ~interrupted /\ ~refused => met = {}
    BY <1>3, <2>6, <2>7
  <2> QED
    BY <2>1, <2>2, <2>4, <2>5, <2>8 DEF GuidInv
<1>4. CASE Request
  <2>1. UNCHANGED <<table, last, interrupted, refused>> /\ pc = "request"
    BY <1>4 DEF Request, settings
  <2>2. table # Nothing /\ Value("guid") = Lookup(table, "guid")
    BY <2>1, ValueOfTable DEF GuidInv
  <2>3. pc' \in {"ack", "failed"}
    BY <1>4 DEF Request, Go
  <2>4. met' = met \/ (~fuji /\ met' = met \cup {Value("guid")})
    BY <1>4 DEF Request
  <2>5. ~interrupted /\ ~refused => Value("guid") \in {last["guid"]}
    BY <1>0, <2>2, ValueFine DEF Fine
  <2>6. ~fuji => Lookup(table, "guid") \in Guids
    BY <2>1 DEF GuidInv
  <2> QED
    BY <2>1, <2>2, <2>3, <2>4, <2>5, <2>6 DEF GuidInv
<1>5. CASE Saving
  <2>1. /\ UNCHANGED <<table, last, refused, pc, fuji, met>>
        /\ ~interrupted' => ~interrupted
    BY <1>5 DEF Saving, Save, SaveFails
  <2> QED
    BY <2>1 DEF GuidInv, Lookup, Value, Current
<1>6. CASE Crash
  <2>1. /\ UNCHANGED <<last, refused, met>> /\ pc' = "idle"
        /\ ~interrupted' => ~interrupted
    BY <1>6 DEF Crash, Restart, Go
  <2> QED
    BY <2>1 DEF GuidInv
<1>7. ASSUME UNCHANGED <<table, last, interrupted, refused, fuji, met>>,
             pc' \in {"idle", "hostname"} \/ pc \notin {"idle", "hostname"},
             pc' = "request" => fuji \/ pc = "request"
      PROVE  met' \subseteq Guids /\ GuidInv'
  BY <1>7 DEF GuidInv, Lookup
<1>8. CASE Start \/ GiveUp \/ Disconnect
  BY <1>7, <1>8 DEF Start, GiveUp, Disconnect, Go, settings
<1>9. CASE LinkLost
  BY <1>7, <1>9 DEF LinkLost, settings
<1>10. CASE ConnectCommand
  BY <1>7, <1>10 DEF ConnectCommand, Go, settings
<1>11. CASE Ack
  BY <1>7, <1>11 DEF Ack, Go, settings
<1>12. CASE AskAgain
  BY <1>7, <1>12 DEF AskAgain, Go, settings
<1>13. CASE ConnectEvent \/ EventRequest
  BY <1>7, <1>13 DEF ConnectEvent, EventRequest, Go, settings
<1>14. CASE OpenSession
  BY <1>7, <1>14 DEF OpenSession, Opened, Go, settings
<1>15. CASE FujiInit \/ DeviceInfo
  BY <1>7, <1>15 DEF FujiInit, DeviceInfo, Go, settings
<1>16. CASE ConnectFujiEvent \/ ConnectJpeg
  BY <1>7, <1>16 DEF ConnectFujiEvent, ConnectJpeg, Go, settings
<1>17. CASE UNCHANGED vars
  BY <1>7, <1>17 DEF vars, settings
<1> QED
  BY <1>1, <1>2, <1>3, <1>4, <1>5, <1>6, <1>8, <1>9, <1>10, <1>11, <1>12, <1>13,
     <1>14, <1>15, <1>16, <1>17 DEF Next, Connecting, Handshake, CameraInit

(***************************************************************************)
(* Theorems                                                                 *)
(***************************************************************************)
LEMMA ConnectionStarts == Init => ConnectionInv
<1> SUFFICES ASSUME Init PROVE ConnectionInv
  OBVIOUS
<1>1. table = Nothing /\ file = Erased /\ last = [k \in Keys |-> Unset]
  BY DEF Init, SettingsInit
<1>2. saving = FALSE /\ interrupted = FALSE /\ refused = FALSE /\ trouble = 0
  BY DEF Init, SettingsInit
<1>3. SettingsTypeOK
  <2>1. last \in [Keys -> Values \cup {Unset}]
    BY <1>1
  <2>2. table \in Table /\ file \in [lines : Table, damaged : BOOLEAN]
    BY <1>1, NothingShape
  <2>3. trouble \in 0 .. MaxTrouble
    BY <1>2, SettingsAssumption
  <2> QED
    BY <1>2, <2>1, <2>2, <2>3 DEF SettingsTypeOK
<1>4. Loaded = Nothing
  BY <1>1 DEF Loaded, Erased
<1>5. \A k \in Keys : Lookup(Nothing, k) = last[k]
  BY <1>1, NothingShape DEF Lookup
<1>6. SettingsInv
  BY <1>1, <1>2, <1>3, <1>4, <1>5 DEF SettingsInv, Fine
<1>7. PhaseOK /\ SocketsOK /\ FlagsOK
  <2>1. PhaseOK /\ SocketsOK
    BY DEF Init, PhaseOK, SocketsOK, Phases, Sockets, HandshakeTries
  <2>2. FlagsOK
    BY DEF Init, FlagsOK
  <2> QED
    BY <2>1, <2>2
<1>8. LinkInv /\ GuidInv /\ met \subseteq Guids
  BY DEF Init, LinkInv, GuidInv
<1> QED
  BY <1>6, <1>7, <1>8 DEF ConnectionInv

LEMMA ConnectionKept == ConnectionInv /\ [Next]_vars => ConnectionInv'
BY SettingsKept, PhaseStep, SocketsStep, FlagsStep, LinkStep, GuidStep
   DEF ConnectionInv

LEMMA ConnectionAlways == Spec => []ConnectionInv
<1> QED
  BY ConnectionStarts, ConnectionKept, PTL DEF Spec

\* Type correctness of the settings and of the connection, whatever the number of
\* GUIDs and of disturbed saves.
THEOREM ConnectionTypes == Spec => []TypeOK
<1>1. ConnectionInv => TypeOK
  BY DEF ConnectionInv, SettingsInv, PhaseOK, SocketsOK, FlagsOK, TypeOK
<1> QED
  BY <1>1, ConnectionAlways, PTL

\* Restarts lose no setting; disturbed saves never bring an older value back
\* (gp_setting_get, load_settings, save_settings).
THEOREM SettingsSurvive == Spec => []SettingsTrue
<1>1. ConnectionInv => SettingsTrue
  <2> SUFFICES ASSUME ConnectionInv, ~refused, NEW k \in Keys
               PROVE  Value(k) = last[k] \/ (interrupted /\ Value(k) \in {Unset, Cut})
    BY DEF SettingsTrue
  <2>1. ~saving \/ table # Nothing
    BY DEF ConnectionInv, SettingsInv
  <2> QED
    BY <2>1, ValueFine DEF ConnectionInv, Fine
<1> QED
  BY <1>1, ConnectionAlways, PTL

\* All cameras that were ever met were introduced to the same GUID, unless a save
\* was disturbed (ptp_nikon_getptpipguid).
THEOREM OneGuid == Spec => []GuidKept
<1>1. ConnectionInv => GuidKept
  BY DEF ConnectionInv, GuidInv, GuidKept
<1> QED
  BY <1>1, ConnectionAlways, PTL

\* camera_init succeeds only with an acknowledged command connection, an open session
\* and, over PTP/IP, an event channel.
THEOREM ReadyMeansConnected == Spec => ReadyConnected
<1> DEFINE Good ==
      pc # "ready" /\ pc' = "ready" =>
        /\ cmd' = "connected" /\ acked' /\ session'
        /\ ~fuji => evt' = "connected"
<1>1. ASSUME ConnectionInv, [Next]_vars, pc # "ready", pc' = "ready"
      PROVE  Good
  <2>1. DeviceInfo
    BY <1>1 DEF Next, Connecting, Handshake, CameraInit, Start, SetHostname, SetMode,
       Saving, ConnectCommand, Guid, Request, Ack, AskAgain, ConnectEvent,
       EventRequest, OpenSession, Opened, FujiInit, ConnectFujiEvent, ConnectJpeg,
       GiveUp, Disconnect, LinkLost, Crash, Go, vars
  <2>2. pc = "info" /\ acked /\ UNCHANGED <<cmd, evt, acked, session>>
    BY <1>1, <2>1 DEF DeviceInfo, Go, link
  <2> QED
    BY <1>1, <2>2 DEF ConnectionInv, LinkInv
<1>2. ConnectionInv /\ [Next]_vars => [Good]_vars
  BY <1>1
<1> QED
  BY <1>2, ConnectionAlways, PTL DEF Spec, ReadyConnected
====
