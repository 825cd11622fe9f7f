------------------------- MODULE OusterSensorProofs -------------------------
(* What holds of the connection lifecycle for every set of configurations   *)
(* and every limit, proved from one inductive invariant.                    *)
EXTENDS OusterSensor, TLAPS

(* What each action does to the three records.                              *)
LEMMA ConnType == ASSUME TypeOK, [Next]_vars PROVE conn' \in ConnRecord
<1>1. CASE \/ ConfigureFails \/ ConfigureThrows \/ Configure \/ CreateClient
           \/ CreateClientFails \/ MetadataThrows \/ ResetService \/ SetConfigService
           \/ ArmStop \/ FireStop \/ FireAttempt \/ StopThread \/ NothingToJoin
           \/ AfterStop \/ Unload \/ SensorReinit \/ SensorPowerCycle
           \/ UNCHANGED vars
  BY <1>1 DEF TypeOK, ConfigureFails, ConfigureThrows, Configure, CreateClient,
     CreateClientFails, MetadataThrows, ResetService, SetConfigService, ArmStop, FireStop,
     FireAttempt, StopThread, NothingToJoin, AfterStop, Unload, SensorReinit,
     SensorPowerCycle, vars
<1>2. CASE StartThread \/ Join \/ Unloaded
  BY <1>2 DEF TypeOK, ConnRecord, ConnPC, Running, StartThread, Join, Unloaded
<1>3. CASE CheckActive \/ PollQuiet \/ PollError \/ ReadError
  BY <1>3 DEF TypeOK, ConnRecord, ConnPC, Running, CheckActive, PollQuiet, PollError,
     ReadError
<1>4. CASE ReadPacket
  BY <1>4 DEF TypeOK, ConnRecord, ConnPC, Running, ReadPacket
<1>5. CASE Deactivate \/ ArmStopFromThread \/ HandlePacket
  BY <1>5 DEF TypeOK, ConnRecord, ConnPC, Running, Deactivate, ArmStopFromThread,
     HandlePacket
<1>6. QED
  BY <1>1, <1>2, <1>3, <1>4, <1>5 DEF Next, MainThread, ConnectionThread

LEMMA SensorType == ASSUME TypeOK, [Next]_vars PROVE sensor' \in SensorRecord
<1>1. CASE Configure
  <2>1. ConfigToApply \in Configs
    BY SensorAssumption DEF TypeOK, SensorRecord, ConfigToApply
  <2>2. Configured(sensor, ConfigToApply, persist_config) \in SensorRecord
    <3>1. sensor.init_id + 1 \in Nat
      BY DEF TypeOK, SensorRecord
    <3>2. CASE persist_config
      BY <2>1, <3>1, <3>2 DEF TypeOK, SensorRecord, Configured
    <3>3. CASE ~persist_config
      BY <2>1, <3>1, <3>3 DEF TypeOK, SensorRecord, Configured
    <3>4. QED
      BY <3>2, <3>3
  <2>3. QED
    BY <1>1, <2>2 DEF TypeOK, Configure
<1>2. CASE SensorReinit \/ SensorPowerCycle
  <2>1. Reinitialised(sensor) \in SensorRecord
    <3>1. sensor.init_id + 1 \in Nat /\ sensor.reinits + 1 \in Nat
      BY DEF TypeOK, SensorRecord
    <3>2. QED
      BY <3>1 DEF TypeOK, SensorRecord, Reinitialised
  <2>2. [Reinitialised(sensor) EXCEPT !.config = sensor.saved] \in SensorRecord
    BY <2>1 DEF TypeOK, SensorRecord
  <2>3. QED
    BY <1>2, <2>1, <2>2 DEF SensorReinit, SensorPowerCycle
<1>3. CASE UNCHANGED sensor
  BY <1>3 DEF TypeOK
<1>4. QED
  BY <1>1, <1>2, <1>3
  DEF Next, MainThread, ConnectionThread, ConfigureFails, ConfigureThrows, CreateClient,
      CreateClientFails, StartThread, MetadataThrows, ArmStop, FireStop, FireAttempt,
      StopThread, Join, NothingToJoin, AfterStop, Unloaded, ResetService,
      SetConfigService, Unload, CheckActive, PollQuiet, PollError, ReadError, ReadPacket,
      Deactivate, ArmStopFromThread, HandlePacket, vars

LEMMA HistoryType == ASSUME TypeOK, [Next]_vars PROVE history' \in HistoryRecord
<1>1. CASE ConfigureFails \/ CreateClientFails
  BY <1>1 DEF TypeOK, HistoryRecord, ConfigureFails, CreateClientFails, StartFailed
<1>2. CASE Configure
  BY <1>2 DEF TypeOK, HistoryRecord, Configure
<1>3. CASE StartThread
  BY <1>3 DEF TypeOK, HistoryRecord, StartThread
<1>4. CASE SetConfigService
  BY <1>4 DEF TypeOK, HistoryRecord, SetConfigService
<1>5. CASE ReadPacket
  BY <1>5 DEF TypeOK, HistoryRecord, ReadPacket
<1>6. CASE SensorReinit \/ SensorPowerCycle
  BY <1>6 DEF TypeOK, HistoryRecord, SensorReinit, SensorPowerCycle
<1>7. CASE UNCHANGED history
  BY <1>7 DEF TypeOK
<1>8. QED
  BY <1>1, <1>2, <1>3, <1>4, <1>5, <1>6, <1>7
  DEF Next, MainThread, ConnectionThread, ConfigureThrows, CreateClient, MetadataThrows,
      ArmStop, FireStop, FireAttempt, StopThread, Join, NothingToJoin, AfterStop, Unloaded,
      ResetService, Unload, CheckActive, PollQuiet, PollError, ReadError, Deactivate,
      ArmStopFromThread, HandlePacket, vars

(* The type invariant is inductive on its own.                              *)
LEMMA TypeStep == TypeOK /\ [Next]_vars => TypeOK'
<1> SUFFICES ASSUME TypeOK, [Next]_vars PROVE TypeOK'
  OBVIOUS
<1>0. conn' \in ConnRecord /\ sensor' \in SensorRecord /\ history' \in HistoryRecord
  BY ConnType, SensorType, HistoryType
<1> USE SensorAssumption, <1>0
    DEF TypeOK, MainPC, timerVars, params, configVars, initIdVars, errorVars
<1>1. CASE ConfigureFails
  <2>1. main' \in MainPC /\ reconnect_timer' \in {"none", "stop", "attempt"}
    BY <1>1 DEF ConfigureFails, StartFailed
  <2>2. reconnect_attempts_available' \in Int
    BY <1>1 DEF ConfigureFails, StartFailed
  <2>3. persist_config' \in BOOLEAN
    BY <1>1 DEF ConfigureFails
  <2>4. UNCHANGED <<sensor_connection_active, sensor_client, params, staged_config,
                    initIdVars, errorVars, calls>>
    BY <1>1 DEF ConfigureFails
  <2>5. QED
    BY <2>1, <2>2, <2>3, <2>4
<1>2. CASE ConfigureThrows
  BY <1>2 DEF ConfigureThrows
<1>3. CASE Configure
  BY <1>3 DEF Configure
<1>4. CASE CreateClient
  BY <1>4 DEF CreateClient
<1>5. CASE CreateClientFails
  BY <1>5 DEF CreateClientFails, StartFailed
<1>6. CASE StartThread
  BY <1>6 DEF StartThread
<1>7. CASE MetadataThrows
  BY <1>7 DEF MetadataThrows
<1>8. CASE ResetService
  <2>1. calls' \in 0 .. MaxCalls
    BY <1>8 DEF ResetService
  <2>2. QED
    BY <1>8, <2>1 DEF ResetService
<1>9. CASE SetConfigService
  <2>1. calls' \in 0 .. MaxCalls
    BY <1>9 DEF SetConfigService
  <2>2. QED
    BY <1>9, <2>1 DEF SetConfigService
<1>10. CASE ArmStop
  BY <1>10 DEF ArmStop
<1>11. CASE FireStop
  BY <1>11 DEF FireStop
<1>12. CASE FireAttempt
  BY <1>12 DEF FireAttempt
<1>13. CASE StopThread
  BY <1>13 DEF StopThread
<1>14. CASE Join
  BY <1>14 DEF Join
<1>15. CASE NothingToJoin
  BY <1>15 DEF NothingToJoin
<1>16. CASE AfterStop
  BY <1>16 DEF AfterStop
<1>17. CASE Unload
  BY <1>17 DEF Unload
<1>18. CASE Unloaded
  BY <1>18 DEF Unloaded
<1>19. CASE CheckActive
  BY <1>19 DEF CheckActive
<1>20. CASE PollQuiet
  BY <1>20 DEF PollQuiet
<1>21. CASE PollError
  BY <1>21 DEF PollError
<1>22. CASE ReadError
  BY <1>22 DEF ReadError
<1>23. CASE ReadPacket
  BY <1>23 DEF ReadPacket, SensorRecord, StillReset, KnownInitId, InitIdChanged
<1>24. CASE Deactivate
  <2>1. sensor_connection_active' \in BOOLEAN
    BY <1>24 DEF Deactivate
  <2>2. UNCHANGED <<main, sensor_client, timerVars, params, configVars, initIdVars,
                     errorVars, calls>>
    BY <1>24 DEF Deactivate
  <2>3. QED
    BY <1>24, <2>1, <2>2
<1>25. CASE ArmStopFromThread
  BY <1>25 DEF ArmStopFromThread
<1>26. CASE HandlePacket
  BY <1>26 DEF HandlePacket
<1>27. CASE SensorReinit
  BY <1>27 DEF SensorReinit
<1>28. CASE SensorPowerCycle
  BY <1>28 DEF SensorPowerCycle
<1>29. CASE UNCHANGED vars
  BY <1>29 DEF vars
<1>30. QED
  BY <1>1, <1>2, <1>3, <1>4, <1>5, <1>6, <1>7, <1>8, <1>9, <1>10, <1>11,
     <1>12, <1>13, <1>14, <1>15, <1>16, <1>17, <1>18, <1>19, <1>20, <1>21,
     <1>22, <1>23, <1>24, <1>25, <1>26, <1>27, <1>28, <1>29
  DEF Next, MainThread, ConnectionThread

LEMMA TypeInit == Init => TypeOK
<1> SUFFICES ASSUME Init PROVE TypeOK
  OBVIOUS
<1>1. conn \in ConnRecord
  BY DEF Init, ConnRecord, ConnPC
<1>2. sensor \in SensorRecord
  BY DEF Init, SensorRecord
<1>3. history \in HistoryRecord
  <2>1. CASE persist_config
    BY <2>1 DEF Init, HistoryRecord
  <2>2. CASE ~persist_config
    BY <2>2 DEF Init, HistoryRecord
  <2>3. QED
    BY <2>1, <2>2
<1>4. /\ main \in MainPC /\ sensor_client \in {"null", "open"}
      /\ reconnect_timer \in {"none", "stop", "attempt"}
      /\ reconnect_attempts_available \in Int
  BY SensorAssumption DEF Init, MainPC
<1>5. /\ poll_client_error_count \in 0 .. MaxPollErrors
      /\ read_lidar_packet_errors \in 0 .. MaxReadErrors
      /\ calls \in 0 .. MaxCalls /\ last_init_id \in Nat \cup {-1}
  BY SensorAssumption DEF Init
<1>6. /\ sensor_connection_active \in BOOLEAN /\ attempt_reconnect \in BOOLEAN
      /\ mtp_main \in BOOLEAN /\ auto_udp_allowed \in BOOLEAN
      /\ persist_config \in BOOLEAN
      /\ reset_last_init_id \in BOOLEAN /\ staged_config \in Configs \cup {NoConfig}
  BY DEF Init
<1>7. QED
  BY <1>1, <1>2, <1>3, <1>4, <1>5, <1>6 DEF TypeOK

(* Every variable of the lifecycle keeps its type; in particular the error  *)
(* counters, which handle_poll_client_error() and read_lidar_packet() clear *)
(* when they reset the sensor, never exceed their limits.                   *)
THEOREM SensorTypeCorrect == Spec => []TypeOK
<1>1. QED
  BY TypeInit, TypeStep, PTL DEF Spec

-----------------------------------------------------------------------------
(* The inductive invariant, in parts.                                       *)

StartPhase == {"starting", "connecting", "fetching"}

(* A stop() in progress is what makes the thread joinable or joined, and an *)
(* "attempt" timer is only ever pending while there is no thread.           *)
ThreadInv ==
    /\ main \in StartPhase \cup {"restarting", "unloaded"}
         => conn.pc \in {"none", "joined"}
    /\ main = "joining" => Joinable
    /\ reconnect_timer = "attempt"
         => main \in {"idle", "arm", "unloading"} /\ conn.pc \in {"none", "joined"}

(* start() has the client before it has the thread.                         *)
ClientInv ==
    /\ ClientAlive
    /\ main = "fetching" => sensor_client = "open"

(* Each failure has used up one of the attempts.                            *)
AttemptInv ==
    /\ GiveUpJustified
    /\ AttemptsBounded
    /\ attempt_reconnect => history.failures =< MaxAttempts - reconnect_attempts_available
    /\ attempt_reconnect /\ main \in StartPhase => reconnect_attempts_available >= 0
    /\ reconnect_timer = "attempt"
         => attempt_reconnect /\ reconnect_attempts_available >= 0
    /\ ~attempt_reconnect /\ main \in StartPhase => history.failures = 0

SensorInv == TypeOK /\ ThreadInv /\ ClientInv /\ AttemptInv

LEMMA InitSensorInv == Init => SensorInv
  BY TypeInit, SensorAssumption
  DEF Init, SensorInv, ThreadInv, ClientInv, ClientAlive, AttemptInv, GiveUpJustified,
      AttemptsBounded, StartPhase, Joinable, Running

(* A start(), successful or not, of the callback queue.                     *)
LEMMA StartStep ==
  ASSUME SensorInv, TypeOK',
         \/ ConfigureFails \/ ConfigureThrows \/ Configure
         \/ CreateClient \/ CreateClientFails \/ StartThread \/ MetadataThrows
  PROVE  SensorInv'
<1> USE SensorAssumption
    DEF SensorInv, ThreadInv, ClientInv, ClientAlive, AttemptInv, GiveUpJustified,
        AttemptsBounded, StartPhase, Joinable, Running, ConnPC, TypeOK, ConnRecord,
        HistoryRecord, timerVars, params
<1>1. CASE ConfigureFails
  BY <1>1 DEF ConfigureFails, StartFailed
<1>2. CASE ConfigureThrows
  BY <1>2 DEF ConfigureThrows
<1>3. CASE Configure
  BY <1>3 DEF Configure
<1>4. CASE CreateClient
  BY <1>4 DEF CreateClient
<1>5. CASE CreateClientFails
  BY <1>5 DEF CreateClientFails, StartFailed
<1>6. CASE StartThread
  BY <1>6 DEF StartThread
<1>7. CASE MetadataThrows
  BY <1>7 DEF MetadataThrows
<1>8. QED
  BY <1>1, <1>2, <1>3, <1>4, <1>5, <1>6, <1>7

(* A service, a timer, stop() or the destructor.                            *)
LEMMA StopStep ==
  ASSUME SensorInv, TypeOK',
         \/ ResetService \/ SetConfigService \/ ArmStop \/ FireStop \/ FireAttempt
         \/ StopThread \/ Join \/ NothingToJoin \/ AfterStop \/ Unload \/ Unloaded
  PROVE  SensorInv'
<1> USE SensorAssumption
    DEF SensorInv, ThreadInv, ClientInv, ClientAlive, AttemptInv, GiveUpJustified,
        AttemptsBounded, StartPhase, Joinable, Running, ConnPC, TypeOK, ConnRecord,
        HistoryRecord, timerVars, params
<1>1. CASE ResetService \/ SetConfigService
  BY <1>1 DEF ResetService, SetConfigService
<1>2. CASE ArmStop
  BY <1>2 DEF ArmStop
<1>3. CASE FireStop
  BY <1>3 DEF FireStop
<1>4. CASE FireAttempt
  BY <1>4 DEF FireAttempt
<1>5. CASE StopThread
  BY <1>5 DEF StopThread
<1>6. CASE Join
  BY <1>6 DEF Join
<1>7. CASE NothingToJoin
  BY <1>7 DEF NothingToJoin
<1>8. CASE AfterStop
  BY <1>8 DEF AfterStop
<1>9. CASE Unload \/ Unloaded
  BY <1>9 DEF Unload, Unloaded
<1>10. QED
  BY <1>1, <1>2, <1>3, <1>4, <1>5, <1>6, <1>7, <1>8, <1>9

(* A step of the connection thread, of the sensor, or none at all.          *)
LEMMA ThreadStep ==
  ASSUME SensorInv, TypeOK',
         \/ ConnectionThread \/ SensorReinit \/ SensorPowerCycle \/ UNCHANGED vars
  PROVE  SensorInv'
<1> USE SensorAssumption
    DEF SensorInv, ThreadInv, ClientInv, ClientAlive, AttemptInv, GiveUpJustified,
        AttemptsBounded, StartPhase, Joinable, Running, ConnPC, TypeOK, ConnRecord,
        HistoryRecord, timerVars, params
<1>1. CASE CheckActive \/ PollQuiet
  BY <1>1 DEF CheckActive, PollQuiet
<1>2. CASE PollError \/ ReadError
  BY <1>2 DEF PollError, ReadError
<1>3. CASE ReadPacket
  BY <1>3 DEF ReadPacket
<1>4. CASE Deactivate \/ ArmStopFromThread \/ HandlePacket
  BY <1>4 DEF Deactivate, ArmStopFromThread, HandlePacket
<1>5. CASE SensorReinit \/ SensorPowerCycle
  BY <1>5 DEF SensorReinit, SensorPowerCycle
<1>6. CASE UNCHANGED vars
  BY <1>6 DEF vars
<1>7. QED
  BY <1>1, <1>2, <1>3, <1>4, <1>5, <1>6 DEF ConnectionThread

LEMMA SensorInvariant == Spec => []SensorInv
<1>1. SensorInv /\ [Next]_vars => SensorInv'
  BY TypeStep, StartStep, StopStep, ThreadStep DEF SensorInv, Next, MainThread
<1>2. QED
  BY <1>1, InitSensorInv, PTL DEF Spec

(* No start() runs beside a connection thread: the std::thread object is    *)
(* never assigned over while joinable, and no buffer or handler is rebuilt  *)
(* under a thread that uses it.                                             *)
THEOREM StartsAlone == Spec => []StartAlone
<1>1. SensorInv => StartAlone
  BY DEF SensorInv, ThreadInv, StartAlone, StartPhase
<1>2. QED
  BY <1>1, SensorInvariant, PTL

(* The client outlives every connection_loop() that uses it.                *)
THEOREM ClientOutlivesThread == Spec => []ClientAlive
<1>1. SensorInv => ClientAlive
  BY DEF SensorInv, ClientInv
<1>2. QED
  BY <1>1, SensorInvariant, PTL

(* No interleaving of services, self resets and timers loses a reconnection *)
(* attempt.                                                                 *)
THEOREM NoAttemptLost == Spec => []GiveUpJustified
<1>1. SensorInv => GiveUpJustified
  BY DEF SensorInv, AttemptInv
<1>2. QED
  BY <1>1, SensorInvariant, PTL

(* And none adds one: max_failed_reconnect_attempts bounds the failures.    *)
THEOREM FailuresBounded == Spec => []AttemptsBounded
<1>1. SensorInv => AttemptsBounded
  BY DEF SensorInv, AttemptInv
<1>2. QED
  BY <1>1, SensorInvariant, PTL

-----------------------------------------------------------------------------
(* The configuration.                                                       *)

(* What has been configured, or found, is the request or what the sensor    *)
(* had saved; a request that was persisted is what it had saved, and a      *)
(* reconnection has nothing left to persist.                                *)
ConfigInv ==
    /\ history.redirected => auto_udp_allowed
    /\ staged_config # NoConfig
         => staged_config = history.requested /\ history.persist # "done"
    /\ staged_config = NoConfig /\ ~Secondary(history.requested)
         => /\ ~persist_config
            /\ history.persist = "done" => sensor.saved = history.requested
            /\ \/ Reached(history.requested)
               \/ history.reverted /\ Reached(sensor.saved)

LEMMA InitConfigInv == Init => ConfigInv
  BY SensorAssumption DEF Init, ConfigInv

(* A start() that configures the sensor, or reads its configuration.        *)
LEMMA ConfigureStep ==
  ASSUME TypeOK, ConfigInv, Configure
  PROVE  ConfigInv'
<1> DEFINE redirect == auto_udp_allowed /\ staged_config = NoConfig
<1>1. /\ staged_config' = NoConfig
      /\ mtp_main' = mtp_main /\ auto_udp_allowed' = auto_udp_allowed
      /\ history'.requested = history.requested
      /\ history.requested \in Configs /\ sensor.saved \in Configs
      /\ sensor.config \in Configs
  BY DEF Configure, params, TypeOK, HistoryRecord, SensorRecord
<1>2. Secondary(history.requested)' = Secondary(history.requested)
  BY <1>1 DEF Secondary
<1>3. CASE Secondary(ConfigToApply)
  <2>1. /\ UNCHANGED <<sensor, persist_config>>
        /\ history' = [history EXCEPT !.undisturbed = TRUE]
    BY <1>3 DEF Configure
  <2>2. /\ history'.redirected = history.redirected
        /\ history'.reverted = history.reverted
        /\ history'.persist = history.persist
    BY <2>1 DEF TypeOK, HistoryRecord
  <2>3. staged_config # NoConfig => Secondary(history.requested)
    BY <1>3 DEF ConfigInv, ConfigToApply
  <2>4. QED
    BY <1>1, <1>2, <2>1, <2>2, <2>3 DEF ConfigInv, Reached
<1>4. CASE ~Secondary(ConfigToApply)
  <2>1. /\ sensor' = Configured(sensor, ConfigToApply, persist_config)
        /\ history' = [history EXCEPT
                          !.persist = IF persist_config THEN "done" ELSE @,
                          !.reverted = @ /\ staged_config = NoConfig,
                          !.undisturbed = TRUE,
                          !.redirected = redirect]
        /\ ~persist_config'
    BY <1>4 DEF Configure
  <2>2. /\ history'.redirected = redirect
        /\ history'.reverted = (history.reverted /\ staged_config = NoConfig)
        /\ history'.persist = IF persist_config THEN "done" ELSE history.persist
    BY <2>1 DEF TypeOK, HistoryRecord
  <2>3. /\ sensor'.config = ConfigToApply
        /\ sensor'.saved = IF persist_config THEN ConfigToApply ELSE sensor.saved
    BY <2>1 DEF Configured, TypeOK, SensorRecord
  <2>4. CASE staged_config # NoConfig
    <3>1. ConfigToApply = history.requested /\ history.persist # "done"
      BY <2>4 DEF ConfigToApply, ConfigInv
    <3>2. QED
      BY <1>1, <2>1, <2>2, <2>3, <2>4, <3>1 DEF ConfigInv, Reached
  <2>5. CASE staged_config = NoConfig
    <3> SUFFICES ASSUME ~Secondary(history.requested)
                 PROVE  /\ history'.persist = "done" => sensor'.saved = history.requested
                        /\ \/ Reached(history.requested)'
                           \/ history'.reverted /\ Reached(sensor.saved)'
                        /\ sensor'.saved = sensor.saved
      BY <1>1, <1>2, <2>1, <2>2 DEF ConfigInv, Reached
    <3>1. /\ ~persist_config
          /\ history.persist = "done" => sensor.saved = history.requested
          /\ \/ Reached(history.requested)
             \/ history.reverted /\ Reached(sensor.saved)
      BY <2>5 DEF ConfigInv
    <3>2. \A c \in Configs : Reached(c) => \/ sensor'.config = c
                                           \/ redirect /\ sensor'.config = AutoDest[c]
      <4>1. history.redirected => auto_udp_allowed
        BY DEF ConfigInv
      <4>2. \A c \in Configs : Reached(c) => sensor.config \in {c, AutoDest[c]}
        BY DEF Reached
      <4>3. CASE auto_udp_allowed
        BY <2>3, <2>5, <4>2, <4>3, SensorAssumption DEF ConfigToApply
      <4>4. CASE ~auto_udp_allowed
        BY <2>3, <2>5, <4>1, <4>4 DEF ConfigToApply, Reached
      <4>5. QED
        BY <4>3, <4>4
    <3>3. /\ Reached(history.requested) => Reached(history.requested)'
          /\ Reached(sensor.saved) => Reached(sensor.saved)'
      BY <1>1, <2>2, <2>3, <3>1, <3>2 DEF Reached
    <3>4. QED
      BY <2>2, <2>3, <2>5, <3>1, <3>3
  <2>6. QED
    BY <2>4, <2>5
<1>5. QED
  BY <1>3, <1>4

LEMMA ConfigStep ==
  ASSUME TypeOK, ConfigInv, [Next]_vars
  PROVE  ConfigInv'
<1> USE DEF ConfigInv, Reached, Secondary
<1>1. CASE Configure
  BY <1>1, ConfigureStep, Zenon
<1>2. CASE SetConfigService
  <2>1. /\ staged_config' = history'.requested /\ staged_config' \in Configs
        /\ history'.persist # "done" /\ history'.redirected = history.redirected
        /\ auto_udp_allowed' = auto_udp_allowed
    BY <1>2 DEF SetConfigService, TypeOK, HistoryRecord, params
  <2>2. QED
    BY <2>1, SensorAssumption
<1>3. CASE SensorReinit
  <2>1. /\ sensor'.config = sensor.config /\ sensor'.saved = sensor.saved
        /\ history'.requested = history.requested /\ history'.persist = history.persist
        /\ history'.reverted = history.reverted
        /\ history'.redirected = history.redirected
    BY <1>3 DEF SensorReinit, Reinitialised, TypeOK, SensorRecord, HistoryRecord
  <2>2. UNCHANGED <<staged_config, persist_config, mtp_main, auto_udp_allowed>>
    BY <1>3 DEF SensorReinit, params, configVars
  <2>3. QED
    BY <2>1, <2>2
<1>4. CASE UNCHANGED <<configVars, mtp_main, auto_udp_allowed, sensor>>
           /\ history'.requested = history.requested
           /\ history'.reverted = history.reverted
           /\ history'.persist = history.persist
           /\ history'.redirected = history.redirected
  BY <1>4, Zenon DEF configVars
<1>5. CASE ConfigureFails \/ CreateClientFails \/ StartThread \/ ReadPacket
  <2>1. /\ history'.requested = history.requested
        /\ history'.reverted = history.reverted
        /\ history'.persist = history.persist
        /\ history'.redirected = history.redirected
    BY <1>5 DEF ConfigureFails, CreateClientFails, StartFailed, StartThread, ReadPacket,
       TypeOK, HistoryRecord
  <2>2. UNCHANGED <<staged_config, mtp_main, auto_udp_allowed, sensor>>
    BY <1>5 DEF ConfigureFails, CreateClientFails, StartThread, ReadPacket, params,
       configVars
  <2>3. persist_config' => persist_config
    BY <1>5 DEF ConfigureFails, CreateClientFails, StartThread, ReadPacket, configVars
  <2>4. QED
    BY <2>1, <2>2, <2>3
<1>6. CASE SensorPowerCycle
  <2>1. /\ history'.reverted /\ ~history'.redirected
        /\ history'.requested = history.requested /\ history'.persist = history.persist
        /\ sensor'.config = sensor.saved /\ sensor'.saved = sensor.saved
    BY <1>6 DEF SensorPowerCycle, Reinitialised, TypeOK, HistoryRecord, SensorRecord
  <2>2. UNCHANGED <<staged_config, persist_config, mtp_main, auto_udp_allowed>>
    BY <1>6 DEF SensorPowerCycle, params, configVars
  <2>3. QED
    BY <2>1, <2>2
<1>7. QED
  BY <1>1, <1>2, <1>3, <1>4, <1>5, <1>6
  DEF Next, MainThread, ConnectionThread, ConfigureThrows, CreateClient, MetadataThrows,
      ArmStop, FireStop, FireAttempt, StopThread, Join, NothingToJoin, AfterStop, Unloaded,
      ResetService, Unload, CheckActive, PollQuiet, PollError, ReadError, Deactivate,
      ArmStopFromThread, HandlePacket, vars, params

(* A connected primary runs the configuration last requested, whatever      *)
(* failed on the way; a power cycle takes it back to what the sensor had    *)
(* saved, unless that request was persisted.                                *)
THEOREM ConfigurationReached == Spec => []ConnectedConfig
<1>1. TypeOK /\ ConfigInv /\ [Next]_vars => ConfigInv'
  BY ConfigStep
<1>2. ConfigInv => ConnectedConfig
  BY DEF ConfigInv, Reached, ConnectedConfig
<1>3. QED
  BY <1>1, <1>2, InitConfigInv, SensorTypeCorrect, PTL DEF Spec

-----------------------------------------------------------------------------
(* Changes of the init id.                                                  *)

(* While the flag of start() is set, a connection has seen one id only; and *)
(* once a packet has cleared it, the id on record is the sensor's, until it *)
(* reinitialises.                                                           *)
InitIdInv ==
    /\ Joinable /\ reset_last_init_id => history.seen # "many"
    /\ main \in {"connecting", "fetching"} => reset_last_init_id
    /\ Joinable /\ history.undisturbed /\ ~reset_last_init_id
         => last_init_id = sensor.init_id
    /\ NoSelfInflictedReset

LEMMA InitIdStep ==
  ASSUME TypeOK, TypeOK', SensorInv, InitIdInv, [Next]_vars
  PROVE  InitIdInv'
<1> USE DEF InitIdInv, NoSelfInflictedReset, Joinable, Running
<1>1. CASE StartThread
  BY <1>1 DEF StartThread, TypeOK, HistoryRecord, initIdVars
<1>2. CASE Configure
  BY <1>2 DEF Configure, SensorInv, ThreadInv, StartPhase
<1>3. CASE ReadPacket
  <2>1. /\ last_init_id' = sensor.init_id /\ sensor' = sensor
        /\ reset_last_init_id' => reset_last_init_id /\ KnownInitId(sensor.init_id) = sensor.init_id
        /\ conn.pc = "poll" /\ main' = main
    BY <1>3, Zenon DEF ReadPacket, StillReset
  <2>2. /\ history'.undisturbed = history.undisturbed
        /\ history'.seen = IF history.seen = "none" THEN "one"
                           ELSE IF sensor.init_id = last_init_id THEN history.seen
                           ELSE "many"
    BY <1>3 DEF ReadPacket, TypeOK, HistoryRecord
  <2>3. KnownInitId(sensor.init_id) = sensor.init_id <=> last_init_id = sensor.init_id
    BY DEF KnownInitId, TypeOK, SensorRecord
  <2>4. conn'.notice = "changed"
          => ~reset_last_init_id /\ last_init_id # sensor.init_id
    BY <1>3, <2>3 DEF ReadPacket, InitIdChanged
  <2>5. main \notin {"connecting", "fetching"}
    BY <2>1 DEF SensorInv, ThreadInv, StartPhase
  <2>6. QED
    BY <2>1, <2>2, <2>3, <2>4, <2>5
<1>4. CASE SensorReinit \/ SensorPowerCycle
  BY <1>4 DEF SensorReinit, SensorPowerCycle, initIdVars, TypeOK, HistoryRecord
<1>5. CASE /\ UNCHANGED <<initIdVars, sensor>>
           /\ history'.seen = history.seen /\ history'.undisturbed = history.undisturbed
           /\ conn'.pc \in Running => conn.pc \in Running
           /\ conn'.notice = "changed" => conn.notice = "changed"
           /\ main' \in {"connecting", "fetching"} => main \in {"connecting", "fetching"}
  BY <1>5 DEF initIdVars
<1>6. CASE ConfigureFails \/ CreateClientFails
  BY <1>5, <1>6 DEF ConfigureFails, CreateClientFails, StartFailed, TypeOK, HistoryRecord
<1>7. CASE \/ ConfigureThrows \/ CreateClient \/ MetadataThrows \/ ArmStop \/ FireStop
           \/ FireAttempt \/ StopThread \/ NothingToJoin \/ AfterStop \/ Unload
           \/ ResetService \/ UNCHANGED vars
  BY <1>5, <1>7
  DEF ConfigureThrows, CreateClient, MetadataThrows, ArmStop, FireStop, FireAttempt,
      StopThread, NothingToJoin, AfterStop, Unload, ResetService, vars
<1>8. CASE SetConfigService
  BY <1>5, <1>8 DEF SetConfigService, TypeOK, HistoryRecord
<1>9. CASE \/ Join \/ Unloaded \/ CheckActive \/ PollQuiet \/ PollError \/ ReadError
           \/ Deactivate \/ ArmStopFromThread \/ HandlePacket
  BY <1>5, <1>9
  DEF Join, Unloaded, CheckActive, PollQuiet, PollError, ReadError, Deactivate,
      ArmStopFromThread, HandlePacket, TypeOK, ConnRecord
<1>10. QED
  BY <1>1, <1>2, <1>3, <1>4, <1>6, <1>7, <1>8, <1>9 DEF Next, MainThread, ConnectionThread

LEMMA InitIdInvariant == Spec => []InitIdInv
<1>1. Init => InitIdInv
  BY DEF Init, InitIdInv, NoSelfInflictedReset, Joinable, Running
<1>2. TypeOK /\ TypeOK' /\ SensorInv /\ InitIdInv /\ [Next]_vars => InitIdInv'
  BY InitIdStep
<1>3. QED
  BY <1>1, <1>2, SensorTypeCorrect, SensorInvariant, PTL DEF Spec

(* Whatever configurations a node applies, it resets its connection only    *)
(* for a reinitialisation that was not its own.                             *)
THEOREM ResetsAreTheSensors == Spec => []NoSelfInflictedReset
<1>1. InitIdInv => NoSelfInflictedReset
  BY DEF InitIdInv
<1>2. QED
  BY <1>1, InitIdInvariant, PTL

(* However often a sensor reinitialises, a connection overlooks only the    *)
(* first change it sees.                                                    *)
THEOREM ChangesNoticed == Spec => MissedOnlyOnce
<1> DEFINE Noticed ==
      Joinable /\ last_init_id' # last_init_id /\ conn'.notice # "changed"
        => history.seen # "many"
<1>1. TypeOK /\ InitIdInv /\ [Next]_vars => [Noticed]_vars
  <2> SUFFICES ASSUME TypeOK, InitIdInv, [Next]_vars, last_init_id' # last_init_id,
                      Joinable, conn'.notice # "changed"
               PROVE  history.seen # "many"
    OBVIOUS
  <2>1. ReadPacket
    BY DEF Next, MainThread, ConnectionThread, ConfigureFails, ConfigureThrows, Configure,
       CreateClient, CreateClientFails, StartThread, MetadataThrows, ArmStop, FireStop,
       FireAttempt, StopThread, Join, NothingToJoin, AfterStop, Unloaded, ResetService,
       SetConfigService, Unload, CheckActive, PollQuiet, PollError, ReadError, Deactivate,
       ArmStopFromThread, HandlePacket, SensorReinit, SensorPowerCycle, vars, initIdVars
  <2>2. ~InitIdChanged(sensor.init_id)
    BY <2>1 DEF ReadPacket
  <2>3. KnownInitId(sensor.init_id) # sensor.init_id
    BY <2>1 DEF ReadPacket, KnownInitId, TypeOK, SensorRecord
  <2>4. reset_last_init_id
    BY <2>2, <2>3 DEF InitIdChanged
  <2>5. QED
    BY <2>4 DEF InitIdInv
<1>2. QED
  BY <1>1, InitIdInvariant, SensorTypeCorrect, PTL DEF Spec, MissedOnlyOnce
=============================================================================
