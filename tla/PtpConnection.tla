---- MODULE PtpConnection ----
(***************************************************************************)
(* Connecting to a camera over the network: what the application does before *)
(* gp_camera_init (GPhoto2Example/ViewController.m), and what camera_init of *)
(* the ptp2 driver does in it: the PTP/IP handshake (camlibs/ptp2/ptpip.c)   *)
(* or the Fuji one (camlibs/ptp2/fujiptpip.c), opening the session with      *)
(* retries, the Fuji initialisation, the device info                         *)
(* (camlibs/ptp2/library.c).  The GUID that introduces the computer to the    *)
(* camera, the host name and the Fuji mode are settings.                      *)
(*                                                                           *)
(* The camera and the network answer each request with any outcome.  Reads    *)
(* have no timeout, so an answer is always the one to the last request.  A     *)
(* transaction is one step here; PtpTransaction looks into it.               *)
(***************************************************************************)
EXTENDS Settings, FiniteSets

CONSTANTS
    Guids,          \* the GUIDs ptp_nikon_getptpipguid can generate
    Host            \* the host name the application sets

Modes == {"browse", "push", "tethering"}
EventTries == 2         \* "try again two times" (ptpip.c:812)
HandshakeTries == 10    \* fujiptpip.c:1033
SessionTries == 10      \* for an invalid transaction id (library.c:9416)
OtherTries == 3         \* for any other failure (library.c:9434)

ASSUME ConnectionAssumption ==
    /\ Keys = {"hostname", "fuji_mode", "guid"}
    /\ Values = Guids \cup Modes \cup {Host}

VARIABLES
    fuji,           \* the model is a Fuji: the other handshake
    pc,
    tries,          \* the tries and retry_count of the running loop
    cmd, evt, jpg,  \* the sockets
    acked,          \* the camera: it has acknowledged this command connection
    session,        \* the camera: a session is open
    met             \* ghost: the GUIDs the camera was introduced to

link == <<cmd, evt, jpg, acked>>
vars == <<settings, fuji, pc, tries, link, session, met>>

Sockets == {"closed", "open", "connected"}
Phases == {"idle", "hostname", "mode", "connect", "guid", "request", "ack", "again",
           "event", "eventrequest", "session", "init", "fujievent", "jpeg", "info",
           "ready", "failed"}
Mode == Value("fuji_mode")

Go(p) == pc' = p /\ tries' = 0

(***************************************************************************)
(* The application, and the settings                                        *)
(***************************************************************************)
\* connectCamera, on a thread of its own, when it is not connected.
Start ==
    /\ pc = "idle" /\ Go("hostname")
    /\ UNCHANGED <<settings, fuji, link, session, met>>

\* gp_setting_set for the host name and for the mode, the one the user wants.
SetHostname ==
    /\ pc = "hostname" /\ Set("hostname", Host) /\ Go("mode")
    /\ UNCHANGED <<fuji, link, session, met>>
SetMode ==
    /\ pc = "mode" /\ \E m \in Modes : Set("fuji_mode", m)
    /\ Go("connect")
    /\ UNCHANGED <<fuji, link, session, met>>

\* gp_setting_set saves before it returns.
Saving ==
    /\ Save \/ SaveFails
    /\ UNCHANGED <<fuji, pc, tries, link, session, met>>

(***************************************************************************)
(* ptp_ptpip_connect, ptp_fujiptpip_connect                                 *)
(***************************************************************************)
\* Every error before the event channel is connected closes cmdfd and evtfd.
CloseBoth == cmd' = "closed" /\ evt' = "closed" /\ acked' = FALSE /\ UNCHANGED jpg

ConnectCommand ==
    /\ pc = "connect" /\ ~saving
    /\ \/ /\ cmd' = "connected" /\ evt' = "open"
          /\ jpg' = IF fuji THEN "open" ELSE "closed"
          /\ acked' = FALSE /\ Go(IF fuji THEN "request" ELSE "guid")
       \/ /\ cmd' = "closed" /\ evt' = "closed"
          /\ jpg' = IF fuji THEN "open" ELSE "closed"
          /\ acked' = FALSE /\ Go("failed")
    /\ UNCHANGED <<settings, fuji, session, met>>

\* Mutants: the stored GUID is used without a look at it; it is never found valid.
GuidUnchecked ==
    /\ pc = "guid" /\ Go("request")
    /\ UNCHANGED <<settings, fuji, link, session, met>>
GuidAlwaysNew ==
    /\ pc = "guid" /\ Go("request") /\ \E g \in Guids : Set("guid", g)
    /\ UNCHANGED <<fuji, link, session, met>>

\* ptp_nikon_getptpipguid: the stored GUID, or a new one if it is not valid.
Guid ==
    /\ pc = "guid" /\ Go("request")
    /\ IF Value("guid") \in Guids THEN UNCHANGED settings
       ELSE \E g \in Guids : Set("guid", g)
    /\ UNCHANGED <<fuji, link, session, met>>

\* init_command_request; Fuji cameras get a fixed GUID.
Request ==
    /\ pc = "request" /\ ~saving
    /\ \/ /\ met' = IF fuji THEN met ELSE met \cup {Value("guid")}
          /\ Go("ack") /\ UNCHANGED link
       \/ Go("failed") /\ CloseBoth /\ UNCHANGED met
    /\ UNCHANGED <<settings, fuji, session>>

\* init_command_ack.  A Fuji camera that has not acknowledged the request is asked
\* again when tethering.
Ack ==
    /\ pc = "ack"
    /\ \/ /\ acked' = TRUE /\ Go(IF fuji THEN "session" ELSE "event")
          /\ UNCHANGED <<cmd, evt, jpg>>
       \/ fuji /\ Mode = "tethering" /\ Go("again") /\ UNCHANGED link
       \/ ~(fuji /\ Mode = "tethering") /\ Go("failed") /\ CloseBoth
    /\ UNCHANGED <<settings, fuji, session, met>>

\* One round of the loop.  After the last one, whatever it brought, the sockets are
\* closed, and the result is the one of writing the request.
AskAgain ==
    /\ pc = "again"
    /\ \E written, ok \in BOOLEAN :
        /\ ok => written
        /\ IF tries = HandshakeTries
           THEN Go(IF written THEN "session" ELSE "failed") /\ CloseBoth
           ELSE IF ok
           THEN Go("session") /\ acked' = TRUE /\ UNCHANGED <<cmd, evt, jpg>>
           ELSE tries' = tries + 1 /\ UNCHANGED <<pc, link>>
    /\ UNCHANGED <<settings, fuji, session, met>>

\* The event channel of PTP/IP, which a camera may not be ready for.
ConnectEvent ==
    /\ pc = "event"
    /\ \/ evt' = "connected" /\ Go("eventrequest") /\ UNCHANGED <<cmd, jpg, acked>>
       \/ tries < EventTries /\ tries' = tries + 1 /\ UNCHANGED <<pc, link>>
       \/ Go("failed") /\ CloseBoth
    /\ UNCHANGED <<settings, fuji, session, met>>

\* init_event_request, init_event_ack: a failure closes nothing.
EventRequest ==
    /\ pc = "eventrequest" /\ (Go("session") \/ Go("failed"))
    /\ UNCHANGED <<settings, fuji, link, session, met>>

(***************************************************************************)
(* camera_init                                                              *)
(***************************************************************************)
\* ptp_opensession succeeds, or there is a session already.
Opened ==
    /\ acked /\ session' = TRUE
    /\ Go(IF fuji /\ Mode # "tethering" THEN "init" ELSE "info")

\* Mutant: after the last try the loop is left as if it had succeeded.
OpenSessionOnce ==
    /\ pc = "session" /\ (Opened \/ (Go("info") /\ UNCHANGED session))
    /\ UNCHANGED <<settings, fuji, link, met>>

\* Mutant: tries is not counted.
OpenSessionForever ==
    /\ pc = "session" /\ (Opened \/ UNCHANGED <<pc, tries, session>>)
    /\ UNCHANGED <<settings, fuji, link, met>>

\* The loop.  The session may be open although the answer got lost; the id of the
\* next session that is tried is left out.
OpenSession ==
    /\ pc = "session"
    /\ \/ Opened
       \/ \E invalid \in BOOLEAN :
            /\ invalid => acked
            /\ session' \in IF acked /\ ~invalid THEN {session, TRUE} ELSE {session}
            /\ IF tries + 1 < IF invalid THEN SessionTries ELSE OtherTries
               THEN tries' = tries + 1 /\ UNCHANGED pc
               ELSE Go("failed")
    /\ UNCHANGED <<settings, fuji, link, met>>

\* The init sequence of the mode and the version the camera gives, sent back to it;
\* only the last mode opens the other two connections.
FujiInit ==
    /\ pc = "init"
    /\ \/ acked /\ Go(IF Mode = "push" THEN "info" ELSE "fujievent")
       \/ Go("failed")
    /\ UNCHANGED <<settings, fuji, link, session, met>>

\* ptp_fujiptpip_init_event, whose result nobody looks at.
ConnectFujiEvent ==
    /\ pc = "fujievent"
    /\ \/ evt' = "connected" /\ Go("jpeg")
       \/ tries < EventTries /\ tries' = tries + 1 /\ UNCHANGED <<pc, evt>>
       \/ evt' = "closed" /\ Go("info")
    /\ UNCHANGED <<settings, fuji, cmd, jpg, acked, session, met>>
ConnectJpeg ==
    /\ pc = "jpeg"
    /\ \/ jpg' = "connected" /\ Go("info")
       \/ tries < EventTries /\ tries' = tries + 1 /\ UNCHANGED <<pc, jpg>>
       \/ jpg' = "closed" /\ Go("info")
    /\ UNCHANGED <<settings, fuji, cmd, evt, acked, session, met>>

\* ptp_getdeviceinfo, legal without a session, and the rest of camera_init.
DeviceInfo ==
    /\ pc = "info" /\ ((acked /\ Go("ready")) \/ Go("failed"))
    /\ UNCHANGED <<settings, fuji, link, session, met>>

(***************************************************************************)
(* The end of a connection                                                  *)
(***************************************************************************)
\* The application learns of the failure; what is open stays open.
GiveUp ==
    /\ pc = "failed" /\ Go("idle")
    /\ UNCHANGED <<settings, fuji, link, session, met>>

\* camera_exit closes the session, if nothing fails before, and no socket;
\* fuji_terminate of the application closes the session and two sockets.
Disconnect ==
    /\ pc = "ready" /\ Go("idle")
    /\ session' \in {session, FALSE}
    /\ CloseBoth \/ UNCHANGED link
    /\ UNCHANGED <<settings, fuji, met>>

\* The camera is switched off, or loses the connection and keeps the session.
LinkLost ==
    /\ acked /\ acked' = FALSE /\ session' \in {session, FALSE}
    /\ UNCHANGED <<settings, fuji, pc, tries, cmd, evt, jpg, met>>

Crash ==
    /\ Restart
    /\ Go("idle") /\ cmd' = "closed" /\ evt' = "closed" /\ jpg' = "closed"
    /\ acked' = FALSE /\ UNCHANGED <<fuji, session, met>>

Init ==
    /\ SettingsInit /\ fuji \in BOOLEAN
    /\ pc = "idle" /\ tries = 0
    /\ cmd = "closed" /\ evt = "closed" /\ jpg = "closed"
    /\ acked = FALSE /\ session = FALSE /\ met = {}

Handshake == ConnectCommand \/ Guid \/ Request \/ Ack \/ AskAgain
                \/ ConnectEvent \/ EventRequest
CameraInit == OpenSession \/ FujiInit \/ ConnectFujiEvent \/ ConnectJpeg \/ DeviceInfo
Connecting == SetHostname \/ SetMode \/ Saving \/ Handshake \/ CameraInit \/ GiveUp
Next == Start \/ Connecting \/ Disconnect \/ LinkLost \/ Crash

Spec == Init /\ [][Next]_vars

\* The thread that connects runs on; the camera and the network answer it, or its
\* reads fail: this is assumed, no read of the library has a timeout.
FairSpec == Spec /\ WF_vars(Connecting)

(***************************************************************************)
(* Properties                                                               *)
(***************************************************************************)
\* Type invariant.
TypeOK ==
    /\ SettingsTypeOK
    /\ fuji \in BOOLEAN /\ pc \in Phases /\ tries \in 0 .. HandshakeTries
    /\ {cmd, evt, jpg} \subseteq Sockets
    /\ acked \in BOOLEAN /\ session \in BOOLEAN /\ met \subseteq Guids

\* A camera knows this computer by one GUID for good, through failed connects and
\* restarts, unless a save was disturbed: it does not have to be paired again
\* (ptp_nikon_getptpipguid, ptp_ptpip_init_command_request).
GuidKept == ~interrupted /\ ~refused => \A g, h \in met : g = h

\* camera_init succeeds only on a command connection that the camera has
\* acknowledged, with a session open and, over PTP/IP, the event channel connected:
\* also when ptp_fujiptpip_connect has returned GP_OK for a handshake that failed,
\* and whatever went wrong and was tried again on the way.
ReadyConnected ==
    [][pc # "ready" /\ pc' = "ready" =>
         /\ cmd' = "connected" /\ acked' /\ session'
         /\ ~fuji => evt' = "connected"]_vars

\* Every attempt to connect comes to an end: the retries are bounded.
ConnectReturns == pc \notin {"idle", "ready"} ~> pc \in {"idle", "ready"}
====
