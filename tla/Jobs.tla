-------------------------------- MODULE Jobs --------------------------------
(***************************************************************************)
(* Work that must come to an end: requests on the product endpoints        *)
(* (RequestDispatch), video jobs (VideoJobs), admin batches (BatchTasks),  *)
(* image sessions (ImagineSessions) and operations on the media cache      *)
(* (MediaCache).  The components share no variable; a behaviour is one of  *)
(* its focus, the others stay as they began.                               *)
(***************************************************************************)
EXTENDS Integers, Sequences, FiniteSets

CONSTANTS Focus,  \* the components a behaviour may be of
          \* RequestDispatch
          Req, Settings, Token, MaxRetries, RefreshQueueCap, LiteImages, NoToken,
          \* VideoJobs
          VideoJob, Lengths, References, MaxImages, ChatMessages, VideoFaults, Missing,
          \* BatchTasks
          Task, Listed, Requests, ChunkSize, Workers, Watcher, QueueCap, RedisFaults,
          \* ImagineSessions
          Conn, Crowds, IpOf, Ticket, MaxConnections, MaxPerIP, TicketTTL, MaxRuns, MaxEvents,
          \* MediaCache
          Worker, Name, Size, Limits, MaxCacheOps, MaxIOFaults, NoWorker

VARIABLES focus,
          setting, reqs, inflight, usable, jobs, working, lost, delivered,
          vjob, vmap, vsnap, vworker, vfile, vchat, vfaults,
          tasks, watchers, spawned, copies, persisted, redisFaults,
          tickets, admitted, limiter, conns, runs,
          files, rows, parts, limit, lock, ops, started, broken, cacheOps, ioFaults

Dispatch == INSTANCE RequestDispatch WITH QueueCap <- RefreshQueueCap
Video == INSTANCE VideoJobs
Batch == INSTANCE BatchTasks
Sessions == INSTANCE ImagineSessions
Cache == INSTANCE MediaCache

ASSUME JobsAssumption ==
    /\ IsFiniteSet(Req) /\ NoToken \notin Token /\ MaxRetries \in Nat /\ RefreshQueueCap \in Nat
    /\ VideoFaults \in Nat /\ Missing \notin Video!JobState
    /\ IsFiniteSet(Conn) /\ MaxRuns \in [Conn -> Nat]
    /\ MaxConnections \in Nat /\ MaxPerIP \in Nat /\ TicketTTL \in Nat

(* File names have an extension, and sizes and limits are counts of bytes.   *)
ASSUME CacheAssumption ==
    /\ "none" \notin Name /\ NoWorker \notin Worker
    /\ Size \in [Name -> Nat] /\ Limits \subseteq Nat /\ MaxCacheOps \in Nat /\ MaxIOFaults \in Nat

dispatchVars == <<setting, reqs, inflight, usable, jobs, working, lost, delivered>>
videoVars == <<vjob, vmap, vsnap, vworker, vfile, vchat, vfaults>>
batchVars == <<tasks, watchers, spawned, copies, persisted, redisFaults>>
sessionVars == <<tickets, admitted, limiter, conns, runs>>
cacheVars == <<files, rows, parts, limit, lock, ops, started, broken, cacheOps, ioFaults>>
vars == <<focus, dispatchVars, videoVars, batchVars, sessionVars, cacheVars>>

(* Only the component in focus moves. *)
InDispatch == focus = "dispatch" /\ UNCHANGED <<focus, videoVars, batchVars, sessionVars, cacheVars>>
InVideo == focus = "video" /\ UNCHANGED <<focus, dispatchVars, batchVars, sessionVars, cacheVars>>
InBatch == focus = "batch" /\ UNCHANGED <<focus, dispatchVars, videoVars, sessionVars, cacheVars>>
InSessions == focus = "sessions" /\ UNCHANGED <<focus, dispatchVars, videoVars, batchVars, cacheVars>>
InCache == focus = "cache" /\ UNCHANGED <<focus, dispatchVars, videoVars, batchVars, sessionVars>>

Init ==
    /\ focus \in Focus
    /\ Dispatch!Init /\ Video!Init /\ Batch!Init /\ Sessions!Init /\ Cache!Init
    /\ focus # "dispatch" => ~setting.quota
    /\ focus # "sessions" => conns = Sessions!Coming(CHOOSE crowd \in Crowds : TRUE)
    /\ focus # "cache" => limit = 0

Next ==
    \/ InDispatch /\ Dispatch!Next
    \/ InVideo /\ Video!Next
    \/ InBatch /\ Batch!Next
    \/ InSessions /\ Sessions!Next
    \/ InCache /\ Cache!Next

Spec == Init /\ [][Next]_vars

-----------------------------------------------------------------------------
(* Every way out of every endpoint, early returns and abandoned streams      *)
(* included, gives its account back exactly once, also when two requests     *)
(* take, retry and give back the same accounts (RunAccountDispatch).         *)
LeasesBalanced == Dispatch!TypeOK /\ Dispatch!LeasesBalanced

(* A client that polls another worker never sees a video job go back, and    *)
(* whoever is told that a video is completed gets its file unless the media  *)
(* cache has removed it since.                                               *)
VideosAreTrue == Video!VideosAreTrue

(* The limiter counts exactly the connections that hold a place, through     *)
(* failed handshakes, stops that time out and closes; a ticket lets one      *)
(* connection in, all runs of a connection but the latest are cancelled, and *)
(* a cancelled run sends one image more at most.                             *)
SessionsAreCounted == Sessions!SessionsAreCounted

(* While nobody holds the lock the index lists no file that is gone, what a  *)
(* crash or a failing call left behind apart; a save that reports success    *)
(* has its file on disk and leaves the index within the limit.               *)
CacheIsTrue == Cache!CacheIsTrue
=============================================================================
