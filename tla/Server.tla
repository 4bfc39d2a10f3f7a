-------------------------------- MODULE Server --------------------------------
(***************************************************************************)
(* The loony-s3-js process with its storage: every client's connection     *)
(* (Lifecycle) has a handler behind it that reads or writes files          *)
(* (LocalStorage).  A client that hangs up breaks its handler's stream, a  *)
(* handler that ends answers on its connection, and whatever ends the      *)
(* process ends its handlers, files staying as they are.                   *)
(***************************************************************************)
EXTENDS LocalStorage, Lifecycle

ASSUME OneHandlerPerClient == Streams = Clients

vars == <<storageVars, lifecycleVars>>

TypeOK == StorageTypeOK /\ LifecycleTypeOK

Init == StorageInit /\ LifecycleInit

Connected(c) == conn[c] = "active"

(* A request arrives and its handler begins. *)
Arrive(c) ==
    /\ Request(c)
    /\ BeginWrite(c) \/ BeginRead(c)

(* Uploads and downloads go no further without their client; an assembly   *)
(* has all it needs.                                                       *)
MayGoOn(c) ==
    stream[c].pc \in {"copy", "send"} /\ stream[c].op # "assemble"
        => Connected(c)

(* A handler's step; with its last one it answers. *)
Handle(c) ==
    /\ Serving
    /\ MayGoOn(c)
    /\ StorageStep(c)
    /\ IF stream'[c].pc = "idle" THEN Respond(c) ELSE UNCHANGED lifecycleVars

(* The handler notices that its client has gone. *)
Notice(c) ==
    /\ Serving
    /\ ~Connected(c)
    /\ SourceBreaks(c) \/ SourceBreaksEarly(c) \/ DownloadAbandoned(c)
    /\ UNCHANGED lifecycleVars

(* Everything that ends the process. *)
Stop ==
    /\ \/ ServerClosed \/ PoolEnded \/ SignalWhileClosing \/ ForceExit
       \/ Die /\ \E c \in Clients : AssemblyBreaks(c)
    /\ Killed

LifecycleStep ==
    \/ Bootstrap \/ Signal \/ SignalAgain \/ DrainTimeout \/ ServerClosedPool
    \/ \E c \in Clients : Connect(c) \/ Disconnect(c)

StorageOnly == Serving /\ (DeleteParts \/ \E p \in Paths : Delete(p))

Next ==
    \/ \E c \in Clients : Arrive(c) \/ Handle(c) \/ Notice(c)
    \/ LifecycleStep /\ UNCHANGED storageVars
    \/ StorageOnly /\ UNCHANGED lifecycleVars
    \/ Stop

Spec == Init /\ [][Next]_vars

(* The drain timer fires, and Node calls server.close() back and ends the  *)
(* pool; nothing is assumed of clients, handlers and the force-exit timer. *)
Fairness ==
    /\ WF_vars(DrainTimeout /\ UNCHANGED storageVars)
    /\ WF_vars(ServerClosedPool /\ UNCHANGED storageVars)
    /\ WF_vars((ServerClosed \/ PoolEnded) /\ Killed)

FairSpec == Spec /\ Fairness
-----------------------------------------------------------------------------
(* Properties *)

(* An upload whose whole body has come is stored when its handler ends,    *)
(* though other uploads to the directory fail, objects beside it are       *)
(* deleted and the parts of its upload removed meanwhile; or its temporary *)
(* file is left, complete, the fsync or the rename having failed (write,   *)
(* fsyncFile, deleteParts, pruneEmptyDirs).  Two exceptions: parts that    *)
(* shared a temporary file, and forms, which are never stored, since their *)
(* Content-Length is not that of the file they hold (putObject).           *)
WholeBodyIsStored ==
    [][\A c \in Clients :
        LET st == stream[c]
            temp == entry'[Target(st)] IN
        (/\ st.op \in {"put", "part", "form"}
         /\ st.pos = Chunks
         /\ st.path \notin shared
         /\ stream'[c].pc = "idle"
         /\ phase' # "down")
            => IF st.op = "form" THEN acked'[st.path] = None
               ELSE \/ acked'[st.path] = st.body
                    \/ /\ Target(st) \in left' /\ temp # None
                       /\ content'[temp] = Whole(st.body)]_vars

(* What a server that answers requests needs of its database.              *)
Needed == IF driver = "sqlite" THEN SchemaParts
          ELSE SchemaParts \ {"idx_objects_expires"}

(* A server that answers requests has every table, column and index of its *)
(* schema, whatever database was found and however often a start was       *)
(* killed between two statements or failed, although the error of the one  *)
(* that adds the column is swallowed (runMigrations, addMissingColumns).   *)
MigratedBeforeServing == Serving => Needed \subseteq schema

(* Only the drain timer, the force-exit timer or a crash ends requests     *)
(* that a client still waits for: the process never exits with 0 under     *)
(* them before the drain timer has fired, however many signals it gets     *)
(* (shutdown).                                                             *)
GracefulExitAnswers ==
    [][(phase # "down" /\ phase' = "down" /\ exitCode' = 0 /\ ~drained)
            => \A c \in Clients : ~Connected(c)]_vars

(* A server that was told to stop ends, without the force-exit timer, with *)
(* clients that never hang up, downloads that broke after their headers    *)
(* and forms that never end (shutdown, streamObject).                      *)
DrainingEnds == phase = "draining" ~> phase = "down"
=============================================================================
