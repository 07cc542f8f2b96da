------------------------------ MODULE VideoJobs ------------------------------
(***************************************************************************)
(* Video generation jobs (products/openai video*.go).  CreateVideo puts a  *)
(* job in the memory of its worker process, publishes a snapshot for the   *)
(* other workers and starts a goroutine that prepares the references,      *)
(* generates one segment after the other, downloads and saves the result   *)
(* and settles the job; every change is published after it is made.        *)
(* Clients poll whichever worker they reach: its memory, or the snapshot.  *)
(* A worker process may stop at any time; it takes its memory and its      *)
(* goroutines with it, and leaves snapshots and files.                     *)
(***************************************************************************)
EXTENDS Naturals, Sequences, FiniteSets

CONSTANTS
    VideoJob,      \* jobs
    Lengths,       \* lengths in seconds that clients ask for
    References,    \* numbers of input references that clients send
    MaxImages,     \* MaxVideoInputImages
    ChatMessages,  \* messages of one chat request, as [text, refs] records
    VideoFaults,   \* bound: failing store commands and restarts in a run
    Missing        \* no job, no snapshot

VARIABLES
    vjob,      \* the job objects
    vmap,      \* jobs in videoJobs, the map of the worker's memory
    vsnap,     \* per job: its snapshot in the shared store
    vworker,   \* per job: the goroutine, and CreateVideo before it
    vfile,     \* per job: its file in the local media cache
    vchat,     \* the last chat request for a video and its outcome
    vfaults

vars == <<vjob, vmap, vsnap, vworker, vfile, vchat, vfaults>>

NoWork == [pc |-> "none", seconds |-> 0, refs |-> 0, done |-> 0]

\* The states of a job in the order in which it takes them.
Rank(status) == CASE status = "queued" -> 0 [] status = "in_progress" -> 1 [] OTHER -> 2

\* buildVideoSegmentLengths, and the lengths ValidateVideoLength accepts.
SegmentLengths(seconds) ==
    CASE seconds \in {6, 10} -> <<seconds>>
      [] seconds = 12 -> <<6, 6>>
      [] seconds = 16 -> <<10, 6>>
      [] seconds = 20 -> <<10, 10>>
      [] OTHER -> <<>>

Goto(j, pc) == vworker' = [vworker EXCEPT ![j].pc = pc]

-----------------------------------------------------------------------------
(* Creating and publishing *)

\* normalizeVideoCreateOptions with validateVideoInputReferences
Accepted(seconds, refs) == SegmentLengths(seconds) # <<>> /\ refs <= MaxImages

CreateVideo(j, seconds, refs) ==
    /\ vjob[j] = Missing /\ Accepted(seconds, refs)
    /\ vjob' = [vjob EXCEPT ![j] = [status |-> "queued", content |-> FALSE]]
    /\ vmap' = vmap \cup {j}
    /\ vworker' = [vworker EXCEPT ![j] = [pc |-> "publish_queued", seconds |-> seconds,
                                          refs |-> refs, done |-> 0]]
    /\ UNCHANGED <<vsnap, vfile, vchat, vfaults>>

\* What the goroutine does after each publication.
After(pc) == CASE pc = "publish_queued" -> "start"
               [] pc = "publish_progress" -> "references"
               [] pc = "publish_end" -> "none"

\* publishVideoJobSnapshot reads the job and writes the shared store; its error
\* is dropped.
Publish(j) ==
    /\ vworker[j].pc \in {"publish_queued", "publish_progress", "publish_end"}
    /\ vsnap' = [vsnap EXCEPT ![j] = vjob[j]]
    /\ Goto(j, After(vworker[j].pc))
    /\ UNCHANGED <<vjob, vmap, vfile, vchat, vfaults>>

PublishFails(j) ==
    /\ vworker[j].pc \in {"publish_queued", "publish_progress", "publish_end"}
    /\ vfaults < VideoFaults
    /\ vfaults' = vfaults + 1
    /\ Goto(j, After(vworker[j].pc))
    /\ UNCHANGED <<vjob, vmap, vsnap, vfile, vchat>>

-----------------------------------------------------------------------------
(* runVideoJob *)

StartVideo(j) ==
    /\ vworker[j].pc = "start"
    /\ vjob' = [vjob EXCEPT ![j].status = "in_progress"]
    /\ Goto(j, "publish_progress")
    /\ UNCHANGED <<vmap, vsnap, vfile, vchat, vfaults>>

\* prepareVideoReference uploads one reference and creates its post; without
\* references one post is created for the prompt.
PrepareReference(j) ==
    /\ vworker[j].pc = "references"
    /\ vworker' = [vworker EXCEPT ![j].refs = IF @ > 0 THEN @ - 1 ELSE 0,
                                  ![j].pc = IF vworker[j].refs <= 1 THEN "segment" ELSE @]
    /\ UNCHANGED <<vjob, vmap, vsnap, vfile, vchat, vfaults>>

\* collectVideoSegment with a final URL; after the last segment the download.
CollectSegment(j) ==
    LET done == vworker[j].done + 1 IN
    /\ vworker[j].pc = "segment"
    /\ vworker' = [vworker EXCEPT ![j].done = done,
           ![j].pc = IF done = Len(SegmentLengths(vworker[j].seconds)) THEN "download" ELSE @]
    /\ UNCHANGED <<vjob, vmap, vsnap, vfile, vchat, vfaults>>

\* Faulty variant: a download that failed is passed over.
SaveVideoUnchecked(j) ==
    /\ vworker[j].pc = "download"
    /\ Goto(j, "complete")
    /\ UNCHANGED <<vjob, vmap, vsnap, vfile, vchat, vfaults>>

\* downloadAndSaveVideo
SaveVideo(j) ==
    /\ vworker[j].pc = "download"
    /\ vfile' = [vfile EXCEPT ![j] = "kept"]
    /\ Goto(j, "complete")
    /\ UNCHANGED <<vjob, vmap, vsnap, vchat, vfaults>>

CompleteVideo(j) ==
    /\ vworker[j].pc = "complete"
    /\ vjob' = [vjob EXCEPT ![j] = [status |-> "completed", content |-> TRUE]]
    /\ Goto(j, "publish_end")
    /\ UNCHANGED <<vmap, vsnap, vfile, vchat, vfaults>>

\* No account, an upstream error, a moderated or empty segment, a bad download
\* or the timeout of the job's context.
FailVideo(j) ==
    /\ vworker[j].pc \in {"references", "segment", "download"}
    /\ vjob' = [vjob EXCEPT ![j].status = "failed"]
    /\ Goto(j, "publish_end")
    /\ UNCHANGED <<vmap, vsnap, vfile, vchat, vfaults>>

-----------------------------------------------------------------------------
(* Expiry and restart *)

\* expireVideoJob removes the job from the map an hour after its creation; a
\* goroutine without a timeout goes on with the object.
ExpireJob(j) ==
    /\ j \in vmap /\ vworker[j].pc # "publish_queued"
    /\ vmap' = vmap \ {j}
    /\ UNCHANGED <<vjob, vsnap, vworker, vfile, vchat, vfaults>>

\* The TTL of the store, restarted by every publication.
ExpireSnapshot(j) ==
    /\ vsnap[j] # Missing
    /\ vsnap' = [vsnap EXCEPT ![j] = Missing]
    /\ UNCHANGED <<vjob, vmap, vworker, vfile, vchat, vfaults>>

Restart ==
    /\ vfaults < VideoFaults
    /\ vfaults' = vfaults + 1
    /\ vmap' = {}
    /\ vworker' = [j \in VideoJob |->
           IF vworker[j].pc = "none" THEN NoWork ELSE [NoWork EXCEPT !.pc = "killed"]]
    /\ UNCHANGED <<vjob, vsnap, vfile, vchat>>

\* The media cache trims, deletes or clears the file (MediaCache).
RemoveVideo(j) ==
    /\ vfile[j] = "kept"
    /\ vfile' = [vfile EXCEPT ![j] = "removed"]
    /\ UNCHANGED <<vjob, vmap, vsnap, vworker, vchat, vfaults>>

-----------------------------------------------------------------------------
(* What clients are told *)

\* RetrieveVideo: the worker of the job answers from its memory, another one, or
\* this one later, from the snapshot.
Answers(j) == {vsnap[j]} \cup {vjob[k] : k \in vmap \cap {j}}

\* VideoContentPath, for a worker that finds the job as answer.
ContentPath(j, answer) ==
    CASE answer = Missing -> "not_found"
      [] answer # Missing /\ (answer.status # "completed" \/ ~answer.content) -> "not_ready"
      [] OTHER -> IF vfile[j] = "kept" THEN "file" ELSE "gone"

-----------------------------------------------------------------------------
(* A video through the chat endpoint *)

\* extractVideoPromptAndReferences looks at the messages from the last to the
\* first until one has a text.  The loop declares a prompt of its own, so the one
\* that is returned stays empty.
ExtractVideoPrompt(messages) ==
    LET texts == {i \in DOMAIN messages : messages[i].text}
        last == IF texts = {} THEN 1 ELSE CHOOSE i \in texts : \A k \in texts : k <= i
        withRefs == {i \in last .. Len(messages) : messages[i].refs > 0}
    IN  [prompt |-> FALSE,
         refs |-> IF withRefs = {} THEN 0
                  ELSE messages[CHOOSE i \in withRefs : \A k \in withRefs : k <= i].refs]

VideoCompletions(messages) ==
    /\ vchat' = [messages |-> messages,
                 outcome |-> IF ExtractVideoPrompt(messages).prompt THEN "generated" ELSE "refused"]
    /\ UNCHANGED <<vjob, vmap, vsnap, vworker, vfile, vfaults>>

-----------------------------------------------------------------------------
Init ==
    /\ vjob = [j \in VideoJob |-> Missing] /\ vmap = {}
    /\ vsnap = [j \in VideoJob |-> Missing]
    /\ vworker = [j \in VideoJob |-> NoWork]
    /\ vfile = [j \in VideoJob |-> "none"] /\ vfaults = 0
    /\ vchat = [messages |-> <<>>, outcome |-> "none"]

JobStep(j) ==
    \/ Publish(j) \/ StartVideo(j) \/ PrepareReference(j) \/ CollectSegment(j)
    \/ SaveVideo(j) \/ CompleteVideo(j) \/ FailVideo(j)

Next ==
    \/ \E j \in VideoJob :
          \/ \E seconds \in Lengths, refs \in References : CreateVideo(j, seconds, refs)
          \/ JobStep(j) \/ PublishFails(j) \/ ExpireJob(j) \/ ExpireSnapshot(j) \/ RemoveVideo(j)
    \/ Restart
    \/ \E messages \in ChatMessages : VideoCompletions(messages)

Spec == Init /\ [][Next]_vars

-----------------------------------------------------------------------------
JobState == [status : {"queued", "in_progress", "completed", "failed"}, content : BOOLEAN]

TypeOK ==
    /\ vjob \in [VideoJob -> JobState \cup {Missing}]
    /\ vsnap \in [VideoJob -> JobState \cup {Missing}]
    /\ vmap \subseteq VideoJob /\ vfile \in [VideoJob -> {"none", "kept", "removed"}]
    /\ \A j \in VideoJob : vworker[j].done <= Len(SegmentLengths(vworker[j].seconds))
    /\ vfaults \in 0 .. VideoFaults

\* A client that polls a worker other than the job's sees the job advance and
\* never go back, and a job that has ended does not change its end: neither a
\* late publication nor the goroutine's start overtakes a newer one.
SnapshotsAdvance ==
    [][\A j \in VideoJob : vsnap[j] # Missing /\ vsnap'[j] # Missing =>
          \/ vsnap'[j] = vsnap[j]
          \/ Rank(vsnap'[j].status) > Rank(vsnap[j].status)]_vars

\* Whoever is told that a video is completed, by whichever worker and after a
\* restart as well, gets its file when he asks for it, and the answer that it is
\* gone only after the media cache has removed what had been saved.
CompletedHasContent ==
    \A j \in VideoJob : \A answer \in Answers(j) :
        answer # Missing /\ answer.status = "completed" =>
            ContentPath(j, answer) = IF vfile[j] = "removed" THEN "gone" ELSE "file"

(* Nothing is left to do for the job, or nobody is left to do it. *)
Settled(j) ==
    \/ vworker[j].pc = "killed"
    \/ /\ vworker[j].pc = "none"
       /\ vjob[j] # Missing => vjob[j].status \in {"completed", "failed"}

\* A goroutine that is not killed settles its job, also when the job has left
\* the map meanwhile or a publication failed.
JobsSettle == \A j \in VideoJob : []<>Settled(j)

\* What a client is told of a video is true and stays true.
VideosAreTrue == [](TypeOK /\ CompletedHasContent) /\ SnapshotsAdvance
=============================================================================
