---------------------------- MODULE OusterSensor ----------------------------
(***************************************************************************)
(* The connection lifecycle of OusterSensor (src/os_sensor_nodelet.cpp):    *)
(* the nodelet's single callback queue (services and one-shot timers, one   *)
(* at a time) and the sensor connection thread it starts, stops and joins.  *)
(* Both arm the same reconnect timer and clear the same atomic flag.        *)
(*                                                                          *)
(* The sensor and the SDK calls that reach it are external: any call may    *)
(* fail, and the sensor may reinitialise or lose power at any moment.       *)
(***************************************************************************)
EXTENDS Integers

CONSTANTS
    Configs,             \* sensor configurations, abstract values
    Multicast,           \* those whose udp_dest is a multicast address
    AutoDest,            \* c with udp_dest reset: the sensor sends to this host
    NoConfig,            \* staged_config is empty
    MaxAttempts,         \* max_failed_reconnect_attempts
    MaxPollErrors,       \* max_poll_client_error_count
    MaxReadErrors,       \* max_read_lidar_packet_errors
    MaxCalls,            \* bound: service calls made
    MaxReinits,          \* bound: reinitialisations of the sensor
    PowerCycles          \* whether the sensor may lose power

ASSUME SensorAssumption ==
    /\ NoConfig \notin Configs
    /\ Multicast \subseteq Configs
    /\ AutoDest \in [Configs -> Configs \ Multicast]
    /\ \A c \in Configs : AutoDest[AutoDest[c]] = AutoDest[c]
    /\ MaxAttempts \in Nat /\ MaxPollErrors \in Nat /\ MaxReadErrors \in Nat
    /\ MaxCalls \in Nat /\ MaxReinits \in Nat
    /\ PowerCycles \in BOOLEAN

VARIABLES
    main,                      \* control of the callback queue
    conn,                      \* the connection thread: [pc, notice]
    sensor_connection_active,
    sensor_client,             \* "null" or "open"
    reconnect_timer,           \* pending one-shot: "none", "stop" or "attempt"
    reconnect_attempts_available,
    attempt_reconnect, mtp_main, auto_udp_allowed,  \* parameters, fixed by onInit
    staged_config,
    persist_config,
    last_init_id, reset_last_init_id,   \* -1: last_init_id has no value
    poll_client_error_count, read_lidar_packet_errors,
    sensor,                    \* external: [config, saved, init_id, reinits]
    calls,                     \* service calls made so far
    history                    \* for the properties: see HistoryRecord

params == <<attempt_reconnect, mtp_main, auto_udp_allowed>>
timerVars == <<reconnect_timer, reconnect_attempts_available>>
configVars == <<staged_config, persist_config>>
initIdVars == <<last_init_id, reset_last_init_id>>
errorVars == <<poll_client_error_count, read_lidar_packet_errors>>
vars == <<main, conn, sensor_connection_active, sensor_client, timerVars, params,
          configVars, initIdVars, errorVars, sensor, calls, history>>

MainPC == {"idle", "arm", "stopping", "joining", "restarting", "starting",
           "connecting", "fetching", "crashed", "unloading", "unloaded"}
Running == {"check", "poll", "deactivate", "arm", "handle", "done"}
ConnPC == Running \cup {"none", "joined"}

ConnRecord == [pc : ConnPC, notice : {"none", "changed"}]
SensorRecord == [config : Configs, saved : Configs, init_id : Nat, reinits : Nat]

(* The configuration last requested, and whether it was to be persisted;    *)
(* whether the sensor has lost power since it was given a staged one, or    *)
(* reinitialised on its own account since the last start(), and whether     *)
(* that one reset the destination it found; failed attempts in a row; the   *)
(* init ids a connection has seen.                                          *)
HistoryRecord == [requested : Configs, persist : {"no", "asked", "done"},
                  reverted : BOOLEAN, undisturbed : BOOLEAN, redirected : BOOLEAN,
                  failures : Nat, seen : {"none", "one", "many"}]

TypeOK ==
    /\ main \in MainPC
    /\ conn \in ConnRecord
    /\ sensor_connection_active \in BOOLEAN
    /\ sensor_client \in {"null", "open"}
    /\ reconnect_timer \in {"none", "stop", "attempt"}
    /\ reconnect_attempts_available \in Int
    /\ attempt_reconnect \in BOOLEAN /\ mtp_main \in BOOLEAN
    /\ auto_udp_allowed \in BOOLEAN
    /\ staged_config \in Configs \cup {NoConfig}
    /\ persist_config \in BOOLEAN
    /\ last_init_id \in Nat \cup {-1} /\ reset_last_init_id \in BOOLEAN
    /\ poll_client_error_count \in 0 .. MaxPollErrors
    /\ read_lidar_packet_errors \in 0 .. MaxReadErrors
    /\ sensor \in SensorRecord
    /\ calls \in 0 .. MaxCalls
    /\ history \in HistoryRecord

(* onInit() has parsed the parameters and is about to call attempt_start(). *)
(* mtp_main is only looked at for a multicast udp_dest, and an automatic    *)
(* one is allowed from then on if none was given.                           *)
Init ==
    /\ main = "starting"
    /\ conn = [pc |-> "none", notice |-> "none"]
    /\ sensor_connection_active = FALSE
    /\ sensor_client = "null"
    /\ reconnect_timer = "none"
    /\ reconnect_attempts_available = MaxAttempts
    /\ attempt_reconnect \in BOOLEAN
    /\ staged_config \in Configs
    /\ mtp_main \in BOOLEAN /\ (mtp_main => staged_config \in Multicast)
    /\ auto_udp_allowed \in BOOLEAN
    /\ auto_udp_allowed => AutoDest[staged_config] = staged_config
    /\ persist_config \in BOOLEAN
    /\ last_init_id = -1 /\ reset_last_init_id = TRUE
    /\ poll_client_error_count = 0 /\ read_lidar_packet_errors = 0
    /\ \E c \in Configs :
         sensor = [config |-> c, saved |-> c, init_id |-> 0, reinits |-> 0]
    /\ calls = 0
    /\ history = [requested |-> staged_config,
                  persist |-> IF persist_config THEN "asked" ELSE "no",
                  reverted |-> FALSE, undisturbed |-> FALSE, redirected |-> FALSE,
                  failures |-> 0, seen |-> "none"]

-----------------------------------------------------------------------------
(* The external sensor.                                                     *)
Reinitialised(s) == [s EXCEPT !.init_id = @ + 1, !.reinits = @ + 1]

(* set_config(): a changed configuration reinitialises the sensor; the      *)
(* persist flag makes it survive a power cycle.                             *)
Configured(s, c, persist) ==
    [s EXCEPT !.config = c,
              !.saved = IF persist THEN c ELSE @,
              !.init_id = IF c = s.config THEN @ ELSE @ + 1]

(* What the sensor does once the node has ended is left out.                *)
Ended == main \in {"crashed", "unloaded"}

SensorReinit ==
    /\ ~Ended /\ sensor.reinits < MaxReinits
    /\ sensor' = Reinitialised(sensor)
    /\ history' = [history EXCEPT !.undisturbed = FALSE]
    /\ UNCHANGED <<main, conn, sensor_connection_active, sensor_client, timerVars,
                   params, configVars, initIdVars, errorVars, calls>>

(* A sensor that loses power comes back with what it saved.                 *)
SensorPowerCycle ==
    /\ PowerCycles /\ ~Ended /\ sensor.reinits < MaxReinits
    /\ sensor' = [Reinitialised(sensor) EXCEPT !.config = sensor.saved]
    /\ history' = [history EXCEPT !.reverted = TRUE, !.redirected = FALSE,
                                  !.undisturbed = FALSE]
    /\ UNCHANGED <<main, conn, sensor_connection_active, sensor_client, timerVars,
                   params, configVars, initIdVars, errorVars, calls>>

-----------------------------------------------------------------------------
(* start(), attempt_start(): the connection thread does not exist meanwhile *)

(* An attempt_start() that retries for ever.                                *)
MutRetryForever ==
    /\ main' = "idle"
    /\ history' = [history EXCEPT !.failures = @ + 1]
    /\ IF attempt_reconnect
       THEN reconnect_timer' = "attempt"
       ELSE UNCHANGED reconnect_timer
    /\ UNCHANGED reconnect_attempts_available

(* An attempt_start() that forgets to schedule the next attempt.            *)
MutNoRetry ==
    /\ main' = "idle"
    /\ history' = [history EXCEPT !.failures = @ + 1]
    /\ UNCHANGED timerVars

(* start() returned false: `attempt_reconnect && attempts-- > 0` schedules  *)
(* another attempt, replacing whatever timer was pending.                   *)
StartFailed ==
    /\ main' = "idle"
    /\ history' = [history EXCEPT !.failures = @ + 1]
    /\ IF attempt_reconnect
       THEN /\ reconnect_attempts_available' = reconnect_attempts_available - 1
            /\ reconnect_timer' =
                 IF reconnect_attempts_available > 0 THEN "attempt" ELSE reconnect_timer
       ELSE UNCHANGED timerVars

(* A reconnection that resets the destination of whatever it found.         *)
MutAlwaysAuto ==
    IF staged_config # NoConfig THEN staged_config ELSE AutoDest[sensor.config]

(* The configuration start() applies: the staged one, or else the one that  *)
(* is active on the sensor, its destination reset if that was allowed.      *)
ConfigToApply ==
    IF staged_config # NoConfig THEN staged_config
    ELSE IF auto_udp_allowed THEN AutoDest[sensor.config] ELSE sensor.config

(* configure_sensor(): a multicast receiver that is not the main one only   *)
(* reads the configuration.                                                 *)
Secondary(c) == c \in Multicast /\ ~mtp_main

(* A failed first step of start(): get_config or set_config could not reach *)
(* the sensor.  set_config() is preceded by compose_config_flags(), which   *)
(* has consumed the persist request by then.                                *)
ConfigureFails ==
    /\ main = "starting"
    /\ StartFailed
    /\ \/ /\ Secondary(ConfigToApply) \/ staged_config = NoConfig
          /\ UNCHANGED persist_config
       \/ ~Secondary(ConfigToApply) /\ persist_config' = FALSE
    /\ UNCHANGED <<conn, sensor_connection_active, sensor_client, params, staged_config,
                   initIdVars, errorVars, sensor, calls>>

(* A secondary receiver lets an exception of get_config() through.          *)
ConfigureThrows ==
    /\ main = "starting" /\ Secondary(ConfigToApply)
    /\ main' = "crashed"
    /\ UNCHANGED <<conn, sensor_connection_active, sensor_client, timerVars, params,
                   configVars, initIdVars, errorVars, sensor, calls, history>>

Configure ==
    /\ main = "starting"
    /\ IF Secondary(ConfigToApply)
       THEN /\ history' = [history EXCEPT !.undisturbed = TRUE]
            /\ UNCHANGED <<sensor, persist_config>>
       ELSE /\ sensor' = Configured(sensor, ConfigToApply, persist_config)
            /\ history' = [history EXCEPT
                              !.persist = IF persist_config THEN "done" ELSE @,
                              !.reverted = @ /\ staged_config = NoConfig,
                              !.undisturbed = TRUE,
                              !.redirected = auto_udp_allowed /\ staged_config = NoConfig]
            /\ persist_config' = FALSE
    /\ staged_config' = NoConfig
    /\ reset_last_init_id' = TRUE
    /\ main' = "connecting"
    /\ UNCHANGED <<conn, sensor_connection_active, sensor_client, timerVars, params,
                   last_init_id, errorVars, calls>>

CreateClient ==
    /\ main = "connecting"
    /\ sensor_client' = "open"
    /\ main' = "fetching"
    /\ UNCHANGED <<conn, sensor_connection_active, timerVars, params, configVars,
                   initIdVars, errorVars, sensor, calls, history>>

CreateClientFails ==
    /\ main = "connecting"
    /\ sensor_client' = "null"
    /\ StartFailed
    /\ UNCHANGED <<conn, sensor_connection_active, params, configVars, initIdVars,
                   errorVars, sensor, calls>>

(* update_metadata() succeeded: buffers and handlers are rebuilt, and       *)
(* start_sensor_connection_thread() replaces the std::thread object.        *)
StartThread ==
    /\ main = "fetching"
    /\ sensor_connection_active' = TRUE
    /\ conn' = [pc |-> "check", notice |-> "none"]
    /\ reconnect_attempts_available' = MaxAttempts
    /\ history' = [history EXCEPT !.failures = 0, !.seen = "none"]
    /\ main' = "idle"
    /\ UNCHANGED <<sensor_client, reconnect_timer, params, configVars, initIdVars,
                   errorVars, sensor, calls>>

(* update_metadata() throws when the sensor returns no metadata, and nobody *)
(* between it and the callback queue catches.                               *)
MetadataThrows ==
    /\ main = "fetching"
    /\ main' = "crashed"
    /\ UNCHANGED <<conn, sensor_connection_active, sensor_client, timerVars, params,
                   configVars, initIdVars, errorVars, sensor, calls, history>>

-----------------------------------------------------------------------------
(* Services and timers, one at a time on the nodelet's callback queue.      *)

(* schedule_stop() from a service: the flag first, then the timer.          *)
ResetService ==
    /\ main = "idle" /\ calls < MaxCalls
    /\ calls' = calls + 1
    /\ sensor_connection_active' = FALSE
    /\ main' = "arm"
    /\ UNCHANGED <<conn, sensor_client, timerVars, params, configVars, initIdVars,
                   errorVars, sensor, history>>

(* set_config stages the configuration it read, then resets.                *)
SetConfigService ==
    /\ main = "idle" /\ calls < MaxCalls
    /\ calls' = calls + 1
    /\ \E c \in Configs :
         /\ staged_config' = c
         /\ history' = [history EXCEPT !.requested = c,
                                       !.persist = IF @ = "done" THEN "no" ELSE @]
    /\ sensor_connection_active' = FALSE
    /\ main' = "arm"
    /\ UNCHANGED <<conn, sensor_client, timerVars, params, persist_config, initIdVars,
                   errorVars, sensor>>

(* Assigning reconnect_timer discards a pending timer it held.              *)
ArmStop ==
    /\ main = "arm"
    /\ reconnect_timer' = "stop"
    /\ main' = "idle"
    /\ UNCHANGED <<conn, sensor_connection_active, sensor_client,
                   reconnect_attempts_available, params, configVars, initIdVars,
                   errorVars, sensor, calls, history>>

(* The timer's callback begins; a one-shot timer fires once.                *)
FireStop ==
    /\ main = "idle" /\ reconnect_timer = "stop"
    /\ reconnect_timer' = "none"
    /\ main' = "stopping"
    /\ UNCHANGED <<conn, sensor_connection_active, sensor_client,
                   reconnect_attempts_available, params, configVars, initIdVars,
                   errorVars, sensor, calls, history>>

FireAttempt ==
    /\ main = "idle" /\ reconnect_timer = "attempt"
    /\ reconnect_timer' = "none"
    /\ main' = "starting"
    /\ UNCHANGED <<conn, sensor_connection_active, sensor_client,
                   reconnect_attempts_available, params, configVars, initIdVars,
                   errorVars, sensor, calls, history>>

Joinable == conn.pc \in Running

(* A stop() that trusts schedule_stop() to have cleared the flag.           *)
MutStopKeepsFlag ==
    /\ main = "stopping" /\ Joinable
    /\ main' = "joining"
    /\ UNCHANGED <<conn, sensor_connection_active, sensor_client, timerVars, params,
                   configVars, initIdVars, errorVars, sensor, calls, history>>

(* A stop() that does not wait for the thread.                              *)
MutDetach ==
    /\ main = "stopping" /\ Joinable
    /\ sensor_connection_active' = FALSE
    /\ sensor_client' = "null"
    /\ main' = "restarting"
    /\ UNCHANGED <<conn, timerVars, params, configVars, initIdVars, errorVars, sensor,
                   calls, history>>

(* stop_sensor_connection_thread(), called by stop().                       *)
StopThread ==
    /\ main = "stopping" /\ Joinable
    /\ sensor_connection_active' = FALSE
    /\ main' = "joining"
    /\ UNCHANGED <<conn, sensor_client, timerVars, params, configVars, initIdVars,
                   errorVars, sensor, calls, history>>

Join ==
    /\ main = "joining" /\ conn.pc = "done"
    /\ conn' = [conn EXCEPT !.pc = "joined"]
    /\ sensor_client' = "null"
    /\ main' = "restarting"
    /\ UNCHANGED <<sensor_connection_active, timerVars, params, configVars, initIdVars,
                   errorVars, sensor, calls, history>>

(* stop() when there is no thread to join.                                  *)
NothingToJoin ==
    /\ main = "stopping" /\ ~Joinable
    /\ sensor_client' = "null"
    /\ main' = "restarting"
    /\ UNCHANGED <<conn, sensor_connection_active, timerVars, params, configVars,
                   initIdVars, errorVars, sensor, calls, history>>

(* The rest of the stop timer's callback.                                   *)
AfterStop ==
    /\ main = "restarting"
    /\ main' = IF attempt_reconnect /\ reconnect_attempts_available > 0
               THEN "starting" ELSE "idle"
    /\ reconnect_attempts_available' =
         IF attempt_reconnect THEN reconnect_attempts_available - 1
         ELSE reconnect_attempts_available
    /\ UNCHANGED <<conn, sensor_connection_active, sensor_client, reconnect_timer,
                   params, configVars, initIdVars, errorVars, sensor, calls, history>>

(* ~OusterSensor: the thread is stopped and joined, the timer is destroyed. *)
Unload ==
    /\ main = "idle"
    /\ sensor_connection_active' =
         IF Joinable THEN FALSE ELSE sensor_connection_active
    /\ main' = "unloading"
    /\ UNCHANGED <<conn, sensor_client, timerVars, params, configVars, initIdVars,
                   errorVars, sensor, calls, history>>

Unloaded ==
    /\ main = "unloading" /\ (~Joinable \/ conn.pc = "done")
    /\ conn' = [conn EXCEPT !.pc = IF @ = "done" THEN "joined" ELSE @]
    /\ sensor_client' = "null"
    /\ reconnect_timer' = "none"
    /\ main' = "unloaded"
    /\ UNCHANGED <<sensor_connection_active, reconnect_attempts_available, params,
                   configVars, initIdVars, errorVars, sensor, calls, history>>

-----------------------------------------------------------------------------
(* The connection thread.                                                   *)

(* The condition of the loop.  What ros::ok() says is left open: it may end *)
(* any connection's thread while the flag is still set.                     *)
CheckActive ==
    /\ conn.pc = "check"
    /\ \/ sensor_connection_active /\ conn' = [conn EXCEPT !.pc = "poll"]
       \/ conn' = [conn EXCEPT !.pc = "done"]
    /\ UNCHANGED <<main, sensor_connection_active, sensor_client, timerVars, params,
                   configVars, initIdVars, errorVars, sensor, calls, history>>

(* poll_client() saw a signal, or imu data alone: nothing else changes, as  *)
(* reactivate_sensor() is not implemented.                                  *)
PollQuiet ==
    /\ conn.pc = "poll"
    /\ conn' = [conn EXCEPT !.pc = "check"]
    /\ \/ UNCHANGED poll_client_error_count
       \/ poll_client_error_count' = 0
    /\ UNCHANGED <<main, sensor_connection_active, sensor_client, timerVars, params,
                   configVars, initIdVars, read_lidar_packet_errors, sensor, calls,
                   history>>

(* A self reset that leaves the counter where it was.                       *)
MutKeepCount ==
    /\ conn.pc = "poll"
    /\ poll_client_error_count' = poll_client_error_count + 1
    /\ conn' = [conn EXCEPT !.pc = IF poll_client_error_count + 1 > MaxPollErrors
                                   THEN "deactivate" ELSE "check"]
    /\ UNCHANGED <<main, sensor_connection_active, sensor_client, timerVars, params,
                   configVars, initIdVars, read_lidar_packet_errors, sensor, calls,
                   history>>

(* handle_poll_client_error(): an error or a timeout.                       *)
PollError ==
    /\ conn.pc = "poll"
    /\ IF poll_client_error_count + 1 > MaxPollErrors
       THEN /\ poll_client_error_count' = 0
            /\ conn' = [conn EXCEPT !.pc = "deactivate"]
       ELSE /\ poll_client_error_count' = poll_client_error_count + 1
            /\ conn' = [conn EXCEPT !.pc = "check"]
    /\ UNCHANGED <<main, sensor_connection_active, sensor_client, timerVars, params,
                   configVars, initIdVars, read_lidar_packet_errors, sensor, calls,
                   history>>

(* read_lidar_packet() could not read the packet poll_client() announced.   *)
ReadError ==
    /\ conn.pc = "poll"
    /\ poll_client_error_count' = 0
    /\ IF read_lidar_packet_errors + 1 > MaxReadErrors
       THEN /\ read_lidar_packet_errors' = 0
            /\ conn' = [conn EXCEPT !.pc = "deactivate"]
       ELSE /\ read_lidar_packet_errors' = read_lidar_packet_errors + 1
            /\ conn' = [conn EXCEPT !.pc = "check"]
    /\ UNCHANGED <<main, sensor_connection_active, sensor_client, timerVars, params,
                   configVars, initIdVars, sensor, calls, history>>

(* The value init_id_changed() compares with: an unset one becomes current  *)
(* plus one, so that the first packet of all differs from it.               *)
KnownInitId(id) == IF last_init_id = -1 THEN id + 1 ELSE last_init_id

MutAlwaysCompared(id) == KnownInitId(id) # id     \* a flag that is not looked at

(* init_id_changed(): after a (re)start the first different id is adopted   *)
(* silently, and only that one clears the flag.                             *)
InitIdChanged(id) == KnownInitId(id) # id /\ ~reset_last_init_id

MutNeverCleared(id) == reset_last_init_id   \* a flag only a start() changes

StillReset(id) == reset_last_init_id /\ KnownInitId(id) = id

ReadPacket ==
    /\ conn.pc = "poll"
    /\ poll_client_error_count' = 0 /\ read_lidar_packet_errors' = 0
    /\ LET id == sensor.init_id IN
         /\ last_init_id' = id
         /\ reset_last_init_id' = StillReset(id)
         /\ conn' = [pc |-> IF InitIdChanged(id) THEN "deactivate" ELSE "handle",
                     notice |-> IF InitIdChanged(id) THEN "changed" ELSE "none"]
         /\ history' = [history EXCEPT
                              !.seen = IF @ = "none" THEN "one"
                                       ELSE IF id = last_init_id THEN @ ELSE "many"]
    /\ UNCHANGED <<main, sensor_connection_active, sensor_client, timerVars, params,
                   configVars, sensor, calls>>

(* schedule_stop() from the connection thread.                              *)
Deactivate ==
    /\ conn.pc = "deactivate"
    /\ sensor_connection_active' = FALSE
    /\ conn' = [conn EXCEPT !.pc = "arm"]
    /\ UNCHANGED <<main, sensor_client, timerVars, params, configVars, initIdVars,
                   errorVars, sensor, calls, history>>

(* A schedule_stop() that clears the flag and arms no timer.                *)
MutForgetTimer ==
    /\ conn.pc = "arm"
    /\ conn' = [conn EXCEPT !.pc = IF conn.notice = "changed" THEN "handle" ELSE "check"]
    /\ UNCHANGED <<main, sensor_connection_active, sensor_client, timerVars, params,
                   configVars, initIdVars, errorVars, sensor, calls, history>>

ArmStopFromThread ==
    /\ conn.pc = "arm"
    /\ reconnect_timer' = "stop"
    /\ conn' = [conn EXCEPT !.pc = IF conn.notice = "changed" THEN "handle" ELSE "check"]
    /\ UNCHANGED <<main, sensor_connection_active, sensor_client,
                   reconnect_attempts_available, params, configVars, initIdVars,
                   errorVars, sensor, calls, history>>

(* handle_lidar_packet(): also for the packet that revealed a new init_id.  *)
HandlePacket ==
    /\ conn.pc = "handle"
    /\ conn' = [pc |-> "check", notice |-> "none"]
    /\ UNCHANGED <<main, sensor_connection_active, sensor_client, timerVars, params,
                   configVars, initIdVars, errorVars, sensor, calls, history>>

-----------------------------------------------------------------------------
MainThread ==
    \/ ConfigureFails \/ ConfigureThrows \/ Configure
    \/ CreateClient \/ CreateClientFails \/ StartThread \/ MetadataThrows
    \/ ArmStop \/ FireStop \/ FireAttempt
    \/ StopThread \/ Join \/ NothingToJoin \/ AfterStop \/ Unloaded

ConnectionThread ==
    \/ CheckActive \/ PollQuiet \/ PollError \/ ReadError \/ ReadPacket
    \/ Deactivate \/ ArmStopFromThread \/ HandlePacket

Next ==
    \/ MainThread \/ ResetService \/ SetConfigService \/ Unload
    \/ ConnectionThread
    \/ SensorReinit \/ SensorPowerCycle

(* The callback queue and the thread are scheduled, and poll_client()       *)
(* returns (it times out); nothing makes the sensor answer.                 *)
Fairness == WF_vars(MainThread) /\ WF_vars(ConnectionThread)

Spec == Init /\ [][Next]_vars

FairSpec == Spec /\ Fairness

-----------------------------------------------------------------------------
(* Properties                                                               *)

(* While start() reconfigures the sensor, replaces the client, the buffers, *)
(* the metadata, the handlers and at last the std::thread object, no        *)
(* connection thread exists: whatever mix of services, self resets and      *)
(* timers led to this start(), an earlier thread has been joined.           *)
StartAlone ==
    main \in {"starting", "connecting", "fetching"} => conn.pc \in {"none", "joined"}

(* The connection thread never runs on a client that stop(), or a failed    *)
(* attempt, has released: connection_loop() dereferences it.                *)
ClientAlive == conn.pc \in Running \ {"done"} => sensor_client = "open"

(* With attempt_reconnect the node is at rest without a connection and      *)
(* without a pending timer only once the attempts are exhausted: no order   *)
(* of resets, failures and timers loses the next attempt.                   *)
GiveUpJustified ==
    main = "idle" /\ ~Joinable /\ reconnect_timer = "none"
        => ~attempt_reconnect \/ reconnect_attempts_available < 0

(* Between two successful connections at most the first attempt and         *)
(* max_failed_reconnect_attempts others fail, whoever asks for them.        *)
AttemptsBounded == history.failures =< MaxAttempts + 1

(* Once start() has consumed the staged configuration the sensor runs the   *)
(* last configuration that was requested, however many attempts it took;    *)
(* its destination has become this host only by a reconnection that found   *)
(* nothing staged.  If the sensor lost power since, it runs in the same     *)
(* sense what it had saved, but for a request that was persisted it still   *)
(* is the request.  (A secondary receiver does not configure.)              *)
Reached(c) ==
    \/ sensor.config = c
    \/ history.redirected /\ sensor.config = AutoDest[c]

ConnectedConfig ==
    Joinable /\ staged_config = NoConfig /\ ~Secondary(history.requested)
        => \/ Reached(history.requested)
           \/ history.reverted /\ history.persist # "done" /\ Reached(sensor.saved)

(* The node's own configuration never makes it reset its connection: a      *)
(* changed init id is only taken for the sensor's doing when the sensor has *)
(* reinitialised on its own account since this connection's start().  So    *)
(* reconnections that change the configuration cannot cause each other.     *)
NoSelfInflictedReset ==
    Joinable /\ conn.notice = "changed" => ~history.undisturbed

(* Of all the changes of the init id that a connection sees, only the first *)
(* can be taken for the one its own start() caused; whatever happened since *)
(* start() set the flag, the later ones lead to a reset.                    *)
MissedOnlyOnce ==
    [][Joinable /\ last_init_id' # last_init_id /\ conn'.notice # "changed"
         => history.seen # "many"]_vars

Connected == sensor_connection_active /\ Joinable

(* Nothing more will be tried: attempts exhausted or not wanted, the node   *)
(* ended by an exception, or unloaded.                                      *)
AtRest ==
    \/ main = "idle" /\ ~Joinable /\ reconnect_timer = "none"
    \/ main \in {"crashed", "unloaded"}

(* A lost or reset connection is always followed by a new one or by the     *)
(* node coming to rest; it never stays half stopped.                        *)
Recovers == ~sensor_connection_active ~> Connected \/ AtRest

(* stop() returns: the thread sees the cleared flag, even when stop() runs  *)
(* from a timer that was armed before this thread was started.              *)
JoinReturns == main = "joining" ~> main # "joining"

-----------------------------------------------------------------------------
(* What the documentation says and the code does not do.                    *)

(* launch/record.launch:159-160: "request the sensor to persist settings".  *)
(* A node that was asked to persist, and has configured its sensor, has     *)
(* persisted.                                                               *)
PersistHonoured ==
    Connected /\ staged_config = NoConfig /\ ~Secondary(history.requested)
        => history.persist # "asked"
=============================================================================
