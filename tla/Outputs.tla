------------------------------- MODULE Outputs -------------------------------
(***************************************************************************)
(* What a client sees of a command's output: the answers of the facade's   *)
(* command calls with the output the observer kept for them and the filter *)
(* that hides PowerShell's CLIXML framing in stderr (mcp/facade.rs), the   *)
(* answers of the control calls that run beside the facade (mcp/server.rs, *)
(* control_plane/command_control.rs), the handles of retained output       *)
(* (execution/output_handles.rs) and the pages read through them.          *)
(*                                                                         *)
(* A text is a sequence of pieces.  A piece is one character to the pages  *)
(* (w is its width in bytes) and one token to the filter (k is its kind):  *)
(* "mark" opens a CLIXML envelope and "close" ends it; a "half" is the     *)
(* beginning of a mark, one if the "rest" follows and plain text if not;   *)
(* "error" and "progress" are the strings an envelope holds.               *)
(*                                                                         *)
(* The facade lock admits one call at a time, and what a call does to the  *)
(* sessions and the handles is done under it: a facade call is one step at *)
(* the time the runtime answers.  A call beside it shares with it only the *)
(* runtime's cursor and the registry's record.                             *)
(***************************************************************************)
EXTENDS Naturals, Sequences, SequencesExt, FiniteSets, FiniteSetsExt, Functions

CONSTANTS
  Commands,
  MaxPending,    \* MAX_PENDING_OUTPUT_BYTES
  MaxFragment,   \* MAX_STDERR_PROTOCOL_BYTES
  MaxPrivate,    \* MAX_PRIVATE_RETAINED_OUTPUT_HANDLES
  MaxLocal,      \* MAX_LOCAL_RETAINED_OUTPUT_HANDLES
  Inline,        \* INLINE_OUTPUT_BYTES
  MaxMade,       \* bound: handles ever made
  Limits,        \* the page sizes clients ask for
  Scenarios      \* what the commands of a behaviour will write, whether calls are
                 \* made beside the facade ("direct"), whether calls fail, whether
                 \* the registry trims its history, and what elevated programs write

Streams == <<"stdout", "stderr">>

VARIABLES
  scene,      \* the scenario
  process,    \* the command's process: "none", "running" or "exited"
  wrote,      \* how many pieces of each stream it has written
  cursor,     \* how many of them the runtime has handed out
  record,     \* the execution registry's record: "none", "running", "ended", "trimmed"
  cancel,     \* is a cancellation intent accepted?
  observing,  \* the sessions reap_command_sessions has still to poll
  mapped,     \* the sessions of PublicCommandSessions
  pending,    \* pending_output
  cut,        \* pending_output_truncated
  buffer      \* stderr_protocol_buffer

VARIABLES
  handles,    \* OutputHandleRegistry
  publicOf,   \* private_to_public
  privateOrder, localOrder,
  made,       \* handles made so far
  reader      \* a client reading an output page by page

\* For the properties: what clients were shown, in order; the pieces that went
\* with an answer an error replaced, or that a note of truncation stands for; and
\* whether a call beside the facade, or an overflow of the protocol buffer, took
\* part of the stream.
VARIABLES shown, excused, aside, spilt

runtimeVars == <<process, wrote, cursor>>
sessionVars == <<mapped, pending, cut, buffer>>
handleVars == <<handles, publicOf, privateOrder, localOrder, made>>
historyVars == <<shown, excused, aside, spilt>>
vars == <<scene, runtimeVars, record, cancel, observing, sessionVars, handleVars, reader,
          historyVars>>

NoReader == [h |-> 0, limit |-> 0, offset |-> 0, got |-> <<>>, pages |-> 0, text |-> <<>>,
             whole |-> FALSE, steady |-> TRUE, bytewise |-> FALSE]

Init ==
  /\ scene \in Scenarios
  /\ process = [c \in Commands |-> "none"]
  /\ wrote = [c \in Commands |-> [s \in Range(Streams) |-> 0]]
  /\ cursor = wrote
  /\ record = [c \in Commands |-> "none"]
  /\ cancel = [c \in Commands |-> FALSE]
  /\ observing = {} /\ mapped = {}
  /\ pending = [c \in Commands |-> <<>>]
  /\ cut = [c \in Commands |-> FALSE]
  /\ buffer = pending
  /\ handles = <<>> /\ publicOf = <<>>
  /\ privateOrder = <<>> /\ localOrder = <<>> /\ made = 0
  /\ reader = NoReader
  /\ shown = pending
  /\ excused = [c \in Commands |-> {}]
  /\ aside = cut /\ spilt = cut

-----------------------------------------------------------------------------
(* Texts.                                                                  *)

Bytes(t) == FoldFunction(LAMBDA p, n : p.w + n, 0, t)
Boundaries(t) == {Bytes(SubSeq(t, 1, i)) : i \in 0..Len(t)}

\* The whole characters among the bytes from start to end.
Between(t, start, end) ==
  LET At(i) == Bytes(SubSeq(t, 1, i))
      inside == {i \in 1..Len(t) : start <= At(i - 1) /\ At(i) <= end}
  IN  IF inside = {} THEN <<>> ELSE SubSeq(t, Min(inside), Max(inside))

\* trim_utf8_front: whole characters go, from the front, until the rest fits.
TrimFront(t, max) ==
  CHOOSE s \in Suffixes(t) :
    /\ Bytes(s) <= max
    /\ \A r \in Suffixes(t) : Bytes(r) <= max => Len(r) <= Len(s)

\* "[earlier command output truncated]" and "[stderr protocol fragment truncated]".
Note == [s |-> "note", i |-> 0, k |-> "text", w |-> 1]

-----------------------------------------------------------------------------
(* The CLIXML filter.                                                      *)

Opens(t, i) == \/ t[i].k = "mark"
               \/ t[i].k = "half" /\ i < Len(t) /\ t[i + 1].k = "rest"
ClixmlEnvelopeStart(t) == {i \in 1..Len(t) : Opens(t, i)}

LooksLikeClixml(t) ==
  \E i \in 1..Len(t) : Opens(t, i) \/ t[i].k \in {"close", "error", "progress"}

\* extract_clixml_error_strings: the strings of progress records among them.
ExtractErrorStrings(t) == SelectSeq(t, LAMBDA p : p.k \in {"error", "progress"})

\* public_command_stderr; strip_private_powershell_prologue is not told apart.
PublicCommandStderr(t) ==
  IF ~LooksLikeClixml(t) THEN t
  ELSE IF \A i \in 1..Len(t) : t[i].k # "error" THEN <<>>
  ELSE ExtractErrorStrings(t)

\* clixml_marker_prefix_suffix_len: the end of the text may begin a mark.
MarkerPrefixSuffix(t) == IF Last(t).k = "half" THEN 1 ELSE 0

\* drain_public_stderr_protocol_buffer: what becomes visible, what is kept.
RECURSIVE Drain(_)
Drain(b) ==
  LET starts == ClixmlEnvelopeStart(b)
      closes == {i \in 1..Len(b) : b[i].k = "close"}
      After(i, visible) ==
        LET tail == Drain(SubSeq(b, i + 1, Len(b)))
        IN  [visible |-> visible \o tail.visible, kept |-> tail.kept]
  IN  IF b = <<>> THEN [visible |-> <<>>, kept |-> <<>>]
      ELSE IF starts # {} /\ Min(starts) > 1
        THEN After(Min(starts) - 1, SubSeq(b, 1, Min(starts) - 1))
      ELSE IF starts # {} /\ closes = {} THEN [visible |-> <<>>, kept |-> b]
      ELSE IF starts # {} THEN After(Min(closes), PublicCommandStderr(SubSeq(b, 1, Min(closes))))
      ELSE IF LooksLikeClixml(b) THEN [visible |-> PublicCommandStderr(b), kept |-> <<>>]
      ELSE LET n == Len(b) - MarkerPrefixSuffix(b)
           IN  [visible |-> SubSeq(b, 1, n), kept |-> SubSeq(b, n + 1, Len(b))]

\* filter_private_stderr, for a session that is mapped.
FilterPrivateStderr(c, t) ==
  LET b == buffer[c] \o t
      retained == TrimFront(b, MaxFragment)
  IN  IF t = <<>> THEN [visible |-> <<>>, kept |-> buffer[c], lost |-> {}, spilt |-> FALSE]
      ELSE IF Len(retained) < Len(b)
        THEN [visible |-> <<Note>> \o PublicCommandStderr(retained), kept |-> <<>>,
              lost |-> Range(b) \ Range(retained), spilt |-> TRUE]
      ELSE Drain(b) @@ [lost |-> {}, spilt |-> FALSE]

-----------------------------------------------------------------------------
(* Output handles (OutputHandleRegistry).                                  *)

Registry == [handles |-> handles, publicOf |-> publicOf, privateOrder |-> privateOrder,
             localOrder |-> localOrder, made |-> made]
SetRegistry(r) ==
  /\ handles' = r.handles /\ publicOf' = r.publicOf
  /\ privateOrder' = r.privateOrder /\ localOrder' = r.localOrder /\ made' = r.made

\* remove, for each of the handles.
Discard(r, hs) ==
  [r EXCEPT !.handles = Restrict(@, DOMAIN @ \ hs),
            !.publicOf = Restrict(@, {f \in DOMAIN @ : @[f] \notin hs})]

\* The oldest handles of a queue that leave it so that one more fits.
Evicted(order, max) == SubSeq(order, 1, IF Len(order) < max THEN 0 ELSE Len(order) - max + 1)
Kept(order, max) == SubSeq(order, Len(Evicted(order, max)) + 1, Len(order))

\* public_for_private; a private reference is a command and a stream.
PublicForPrivate(r, ref, stream) ==
  LET cleared == Discard(r, Range(Evicted(r.privateOrder, MaxPrivate)))
      h == r.made + 1
  IN  IF ref \in DOMAIN r.publicOf THEN r
      ELSE [cleared EXCEPT
              !.handles = @ @@ h :> [local |-> FALSE, ref |-> ref, stream |-> stream, text |-> <<>>],
              !.publicOf = @ @@ ref :> h,
              !.privateOrder = Append(Kept(@, MaxPrivate), h),
              !.made = h]

RetainLocal(r, stream, text) ==
  LET cleared == Discard(r, Range(Evicted(r.localOrder, MaxLocal)))
      h == r.made + 1
  IN  [cleared EXCEPT
         !.handles = @ @@ h :> [local |-> TRUE, ref |-> <<>>, stream |-> stream, text |-> text],
         !.localOrder = Append(Kept(@, MaxLocal), h),
         !.made = h]

\* reap_owned_by.
FaultyReapOwnedBy(r, commands) ==
  Discard(r, {h \in DOMAIN r.handles : ~r.handles[h].local /\ r.handles[h].ref[1] \in commands})
ReapOwnedBy(r, commands) ==
  LET expired == {h \in DOMAIN r.handles : ~r.handles[h].local /\ r.handles[h].ref[1] \in commands}
  IN  [Discard(r, expired) EXCEPT !.privateOrder = SelectSeq(@, LAMBDA h : h \notin expired)]

\* The stream whose handle the runtime gives as the primary one.
Primary(out, err) == IF out = <<>> /\ err # <<>> THEN "stderr" ELSE "stdout"
PrimaryOutputStream(primary) == primary

\* map_private_output_refs: the primary handle first, then each stream's.
MapPrivateOutputRefs(c, primary) ==
  LET first == PublicForPrivate(Registry, <<c, primary>>, PrimaryOutputStream(primary))
  IN  FoldLeft(LAMBDA r, s : PublicForPrivate(r, <<c, s>>, s), first, Streams)

-----------------------------------------------------------------------------
(* What the runtime hands out, and what the sessions keep of it.           *)

Script(c, s) == scene.script[c][s]
Delta(c, s, w) == SubSeq(Script(c, s), cursor[c][s] + 1, w[s])

\* The runtime answers with everything up to w; the answer may be lost on its way.
HandOut(c, w) == wrote' = [wrote EXCEPT ![c] = w] /\ cursor' = [cursor EXCEPT ![c] = w]
Unread(c) == UNION {Range(Delta(c, s, wrote[c])) : s \in Range(Streams)}

\* take_pending.
TakePending(c) == IF cut[c] THEN <<Note>> \o pending[c] ELSE pending[c]

\* append_pending to what is pending still.
AppendPending(c, left, leftCut, t) ==
  LET fits == TrimFront(left \o t, MaxPending)
      trims == Len(fits) < Len(left \o t)
  IN  /\ pending' = [pending EXCEPT ![c] = fits]
      /\ cut' = [cut EXCEPT ![c] = leftCut \/ trims]

Trimmed(left, t) == Range(left \o t) \ Range(TrimFront(left \o t, MaxPending))

Emptied(c) == pending' = [pending EXCEPT ![c] = <<>>] /\ cut' = [cut EXCEPT ![c] = FALSE]
Show(c, t) == shown' = [shown EXCEPT ![c] = @ \o t]
Excuse(c, pieces) == excused' = [excused EXCEPT ![c] = @ \cup pieces]

\* normalize_command_result and safe_command_output_for_session.
Output(c, w, f) == Delta(c, "stdout", w) \o f.visible
Normalize(c, w, f) ==
  /\ HandOut(c, w)
  /\ buffer' = [buffer EXCEPT ![c] = f.kept]
  /\ spilt' = [spilt EXCEPT ![c] = @ \/ f.spilt]
  /\ SetRegistry(MapPrivateOutputRefs(c, Primary(Delta(c, "stdout", w), Delta(c, "stderr", w))))

\* finish: a command that is seen to have ended has no intent any more.
Settle(c, ends) ==
  /\ record' = [record EXCEPT ![c] = IF ends /\ @ = "running" THEN "ended" ELSE @]
  /\ cancel' = [cancel EXCEPT ![c] = @ /\ ~ends]

\* A call to the runtime fails: whether its answer was already on the way is
\* anybody's guess, and what was in it is gone.
Loses(c) ==
  /\ scene.fails
  /\ \/ UNCHANGED <<cursor, excused>>
     \/ cursor' = [cursor EXCEPT ![c] = wrote[c]] /\ Excuse(c, Unread(c))

-----------------------------------------------------------------------------
(* The facade's calls.                                                     *)

Free == observing = {}
Room == made + 2 <= MaxMade

StartSession(c) ==
  /\ record[c] = "none" /\ c \in DOMAIN scene.script
  /\ mapped' = mapped \cup {c}

\* bind_private_session: the runtime answered with its session.
Bound(c) == process[c] # "none"

\* The result of a call could not be recorded (mark_terminal, or the workflow's
\* checkpoint after a kill): the runtime's text, and "taken", are lost to the error.
Unrecorded(c, w, f, taken) ==
  /\ scene.fails
  /\ Normalize(c, w, f)
  /\ Excuse(c, f.lost \cup Range(taken) \cup Range(Output(c, w, f)))
  /\ UNCHANGED shown

\* execute_shell.  The command may write, and end, before the first answer.  After
\* an error the record is ended, if that can be recorded; a command that was not
\* bound is none to this module, whatever it does.
ExecuteShell(c) ==
  /\ Free /\ Room /\ StartSession(c)
  /\ \/ \E out \in 0..Len(Script(c, "stdout")), err \in 0..Len(Script(c, "stderr")),
           p \in {"running", "exited"} :
          LET w == [stdout |-> out, stderr |-> err]
              f == FilterPrivateStderr(c, Delta(c, "stderr", w))
          IN  /\ process' = [process EXCEPT ![c] = p]
              /\ \/ /\ Normalize(c, w, f)
                    /\ Show(c, Output(c, w, f)) /\ Excuse(c, f.lost)
                    /\ record' = [record EXCEPT ![c] = IF p = "exited" THEN "ended" ELSE "running"]
                 \/ /\ p = "exited" /\ Unrecorded(c, w, f, <<>>)
                    /\ \E r \in {"ended", "running"} : record' = [record EXCEPT ![c] = r]
     \/ /\ scene.fails
        /\ \E r \in {"ended", "running"} : record' = [record EXCEPT ![c] = r]
        /\ UNCHANGED <<runtimeVars, buffer, spilt, handleVars, shown, excused>>
  /\ UNCHANGED <<scene, cancel, observing, pending, cut, reader, aside>>

\* control_command, Poll: the outcome with what is pending, or what is pending,
\* or what the runtime has.
PollEnded(c) ==
  /\ record[c] = "ended" \/ (record[c] = "running" /\ TakePending(c) # <<>>)
  /\ Show(c, TakePending(c)) /\ Emptied(c)
  /\ UNCHANGED <<runtimeVars, buffer, spilt, record, cancel, handleVars, excused>>

PollRuntime(c) ==
  /\ record[c] = "running" /\ Bound(c) /\ TakePending(c) = <<>> /\ Room
  /\ LET f == FilterPrivateStderr(c, Delta(c, "stderr", wrote[c]))
     IN  /\ Normalize(c, wrote[c], f)
         /\ Show(c, Output(c, wrote[c], f)) /\ Excuse(c, f.lost)
         /\ Settle(c, process[c] = "exited")
  /\ UNCHANGED <<process, pending, cut>>

\* Write and Kill: what is pending comes before what the runtime has.  Only a
\* command that still runs takes input.
ControlRuntime(c, kill) ==
  /\ record[c] = "running" /\ Bound(c) /\ Room
  /\ kill \/ process[c] = "running"
  /\ \E p \in {process[c], "exited"} :
       LET f == FilterPrivateStderr(c, Delta(c, "stderr", wrote[c]))
       IN  /\ process' = [process EXCEPT ![c] = p]
           /\ Normalize(c, wrote[c], f)
           /\ Show(c, TakePending(c) \o Output(c, wrote[c], f)) /\ Excuse(c, f.lost)
           /\ record' = [record EXCEPT ![c] = IF p = "exited" THEN "ended" ELSE @]
           /\ cancel' = [cancel EXCEPT ![c] = (@ \/ kill) /\ p # "exited"]
  /\ Emptied(c)

\* Poll, Write or Kill: the command has ended and that cannot be recorded, or it
\* was killed and its workflow's checkpoint cannot be.  What a write or a kill had
\* taken is not put back.
ControlUnrecorded(c, kill) ==
  /\ record[c] = "running" /\ Bound(c) /\ Room
  /\ kill \/ process[c] = "running" \/ TakePending(c) = <<>>
  /\ process' = [process EXCEPT ![c] = "exited"]
  /\ LET f == FilterPrivateStderr(c, Delta(c, "stderr", wrote[c]))
     IN  Unrecorded(c, wrote[c], f, TakePending(c))
  /\ Emptied(c)
  /\ \/ UNCHANGED record /\ cancel' = [cancel EXCEPT ![c] = @ \/ kill]
     \/ kill /\ Settle(c, TRUE)

\* The call fails.  What was taken is put back; a call that did not just time
\* out ends the record, if that can be recorded, and with an intent the client is
\* told of a cancelled command and given what is pending.
FaultyPutBack(c) == Emptied(c)
PutBack(c) == AppendPending(c, <<>>, FALSE, TakePending(c))
ControlFails(c, kill) ==
  /\ record[c] = "running" /\ Bound(c) /\ scene.fails
  /\ UNCHANGED <<process, wrote, buffer, spilt, handleVars>>
  /\ cursor' = cursor \/ cursor' = [cursor EXCEPT ![c] = wrote[c]]
  /\ LET gone == IF cursor' = cursor THEN {} ELSE Unread(c)
         intent == cancel[c] \/ kill
     IN  \/ /\ PutBack(c) /\ UNCHANGED <<record, shown>>    \* OperationTimedOut, or unrecorded
            /\ \E still \in {intent, cancel[c] /\ ~kill} : cancel' = [cancel EXCEPT ![c] = still]
            /\ Excuse(c, gone \cup Trimmed(<<>>, TakePending(c)))
         \/ /\ intent /\ Settle(c, TRUE)                    \* SessionUnavailable, RuntimeUnavailable
            /\ Show(c, TakePending(c)) /\ Emptied(c) /\ Excuse(c, gone)
         \/ /\ Settle(c, TRUE)                              \* and any other error
            /\ PutBack(c) /\ UNCHANGED shown
            /\ Excuse(c, gone \cup Trimmed(<<>>, TakePending(c)))

ControlCommand(c) ==
  /\ Free /\ c \in mapped
  /\ \/ PollEnded(c) \/ PollRuntime(c)
     \/ \E kill \in BOOLEAN :
          ControlRuntime(c, kill) \/ ControlUnrecorded(c, kill) \/ ControlFails(c, kill)
  /\ UNCHANGED <<scene, observing, mapped, reader, aside>>

ExpiredMappings == {c \in mapped : record[c] = "trimmed"}
RunningSessions == {c \in mapped : record[c] = "running" /\ Bound(c)}

\* reap_command_sessions: the sessions of trimmed records go, with their handles;
\* then every running command is polled, unless the runtime is gone.
Observe ==
  LET expired == ExpiredMappings
      running == {c \in mapped : record[c] = "running"}
  IN  /\ Free /\ mapped # {}
      /\ mapped' = mapped \ expired
      /\ pending' = [c \in Commands |-> IF c \in expired THEN <<>> ELSE pending[c]]
      /\ buffer' = [c \in Commands |-> IF c \in expired THEN <<>> ELSE buffer[c]]
      /\ cut' = [c \in Commands |-> cut[c] /\ c \notin expired]
      /\ SetRegistry(ReapOwnedBy(Registry, expired))
      /\ \/ observing' = RunningSessions /\ UNCHANGED <<record, cancel, process>>
         \/ /\ scene.fails /\ UNCHANGED observing
            /\ record' = [c \in Commands |-> IF c \in running THEN "ended" ELSE record[c]]
            /\ cancel' = [c \in Commands |-> cancel[c] /\ c \notin running]
            /\ process' = [c \in Commands |-> IF c \in running THEN "exited" ELSE process[c]]
      /\ UNCHANGED <<scene, wrote, cursor, reader, historyVars>>

\* One poll of it; meanwhile a call beside the facade may have ended the record.
ObserveOne(c) ==
  /\ c \in observing /\ Room
  /\ \/ LET f == FilterPrivateStderr(c, Delta(c, "stderr", wrote[c]))
            t == Output(c, wrote[c], f)
        IN  /\ Normalize(c, wrote[c], f)
            /\ AppendPending(c, pending[c], cut[c], t)
            /\ Excuse(c, f.lost \cup Trimmed(pending[c], t))
            /\ Settle(c, process[c] = "exited")
     \/ /\ Loses(c) /\ Settle(c, TRUE)
        /\ UNCHANGED <<wrote, buffer, spilt, pending, cut, handleVars>>
  /\ observing' = observing \ {c}
  /\ UNCHANGED <<scene, process, mapped, reader, shown, aside>>

\* An observation that cannot be recorded ends the serving loop: the commands go
\* with the runtime, the sessions and the handles with the facade.
ObserverFails ==
  LET running == {c \in Commands : record[c] = "running"}
  IN  /\ scene.fails /\ mapped # {}
      /\ observing' = {} /\ mapped' = {}
      /\ pending' = [c \in Commands |-> <<>>] /\ buffer' = pending'
      /\ cut' = [c \in Commands |-> FALSE] /\ cancel' = cut'
      /\ record' = [c \in Commands |-> IF c \in running THEN "ended" ELSE record[c]]
      /\ process' = [c \in Commands |-> IF Bound(c) THEN "exited" ELSE process[c]]
      /\ SetRegistry([Registry EXCEPT !.handles = <<>>, !.publicOf = <<>>, !.privateOrder = <<>>,
                                      !.localOrder = <<>>])
      /\ reader' = NoReader
      /\ UNCHANGED <<scene, wrote, cursor, historyVars>>

\* inline_output cuts the text.
InlineTruncated(t) == Bytes(t) > Inline

\* The output of an elevated program that is too long to be answered whole is
\* retained (dispatch_elevated_exec).
RetainOutput(text) ==
  FoldLeft(LAMBDA r, s : IF InlineTruncated(text[s]) THEN RetainLocal(r, s, text[s]) ELSE r,
           Registry, Streams)
ElevatedExec ==
  /\ Free /\ Room
  /\ \E text \in scene.elevated : SetRegistry(RetainOutput(text))
  /\ UNCHANGED <<scene, runtimeVars, record, cancel, observing, sessionVars, reader, historyVars>>

-----------------------------------------------------------------------------
(* Calls beside the facade (direct_command_control_during_work): the filter *)
(* sees one answer at a time, and what is pending stays there.             *)

DirectControl(c) ==
  /\ scene.direct /\ record[c] = "running" /\ Bound(c)
  /\ \/ /\ HandOut(c, wrote[c])                                   \* poll or write
        /\ Show(c, Delta(c, "stdout", wrote[c])
                     \o PublicCommandStderr(Delta(c, "stderr", wrote[c])))
        /\ Settle(c, process[c] = "exited")
        /\ UNCHANGED <<process, excused>>
     \/ /\ HandOut(c, wrote[c])                                   \* kill, seen to its end
        /\ process' = [process EXCEPT ![c] = "exited"]
        /\ Show(c, Delta(c, "stdout", wrote[c])
                     \o PublicCommandStderr(Delta(c, "stderr", wrote[c])))
        /\ Settle(c, TRUE) /\ UNCHANGED excused
     \/ /\ scene.fails                                           \* an end, not recorded
        /\ HandOut(c, wrote[c]) /\ Excuse(c, Unread(c))
        /\ \E kill \in BOOLEAN : /\ kill \/ process[c] = "exited"
                                 /\ cancel' = [cancel EXCEPT ![c] = @ \/ kill]
        /\ process' = [process EXCEPT ![c] = "exited"]
        /\ UNCHANGED <<record, shown>>
     \/ /\ HandOut(c, wrote[c]) /\ Excuse(c, Unread(c))           \* kill, not seen to its end
        /\ process[c] = "running"
        /\ cancel' = [cancel EXCEPT ![c] = TRUE]
        /\ UNCHANGED <<process, record, shown>>
     \/ /\ Loses(c) /\ UNCHANGED <<process, wrote, shown>>
        /\ \E kill \in BOOLEAN :
             \/ /\ \E still \in {cancel[c] \/ kill, FALSE} : cancel' = [cancel EXCEPT ![c] = still]
                /\ UNCHANGED record
             \/ (cancel[c] \/ kill) /\ Settle(c, TRUE)
  /\ aside' = [aside EXCEPT ![c] = TRUE]
  /\ UNCHANGED <<scene, observing, sessionVars, handleVars, reader, spilt>>

-----------------------------------------------------------------------------
(* Reading a retained output, page by page.                                *)

\* public_local_output_page.
FaultyPage(t, offset, limit) ==
  LET start == Min({offset, Bytes(t)})
      fits == {b \in Boundaries(t) : start <= b /\ b <= start + limit}
  IN  IF start \notin Boundaries(t) THEN [ok |-> FALSE, end |-> 0, text |-> <<>>]
      ELSE [ok |-> TRUE, end |-> Max(fits),
            text |-> Between(t, start, Max(fits))]
Page(t, offset, limit) ==
  LET start == Min({offset, Bytes(t)})
      ends == {b \in Boundaries(t) : start <= b /\ b <= start + limit}
      later == {b \in Boundaries(t) : b > start}
      end == IF Max(ends) = start /\ later # {} THEN Min(later) ELSE Max(ends)
  IN  IF start \notin Boundaries(t) THEN [ok |-> FALSE, end |-> 0, text |-> <<>>]
      ELSE [ok |-> TRUE, end |-> end, text |-> Between(t, start, end)]

\* public_stderr_page: pages of what the filter leaves of the whole stream.
PublicStderrPage(t, offset, limit) == Page(PublicCommandStderr(t), offset, limit)

\* The runtime pages stdout by bytes; a character that two pages share is lost.
RuntimePage(t, offset, limit) ==
  LET start == Min({offset, Bytes(t)})
      end == Min({start + limit, Bytes(t)})
  IN  [ok |-> TRUE, end |-> end, text |-> Between(t, start, end)]

Written(ref) == SubSeq(Script(ref[1], ref[2]), 1, wrote[ref[1]][ref[2]])
Content(h) ==
  LET d == handles[h]
  IN  IF d.local THEN d.text
      ELSE IF d.stream = "stderr" THEN PublicCommandStderr(Written(d.ref))
      ELSE Written(d.ref)

\* output_owned_by: the registry still knows the command.
Readable(h) ==
  /\ h \in DOMAIN handles
  /\ IF handles[h].local THEN TRUE ELSE record[handles[h].ref[1]] # "trimmed"

ReadOutput(h, limit, r) ==
  LET t == Content(h)
      bytewise == ~handles[h].local /\ handles[h].stream = "stdout"
      page == IF handles[h].local THEN Page(t, r.offset, limit)
              ELSE IF bytewise THEN RuntimePage(t, r.offset, limit)
              ELSE PublicStderrPage(Written(handles[h].ref), r.offset, limit)
  IN  reader' = IF ~page.ok THEN NoReader
                ELSE [h |-> h, limit |-> limit, offset |-> page.end, got |-> r.got \o page.text,
                      pages |-> r.pages + 1, text |-> t, whole |-> page.end >= Bytes(t),
                      steady |-> r.steady /\ (r.pages = 0 \/ r.text = t),
                      bytewise |-> bytewise]

\* A client begins to read, or goes on where the last page said.
BeginReading ==
  /\ Free /\ scene.reads /\ (reader = NoReader \/ reader.whole)
  /\ \E h \in DOMAIN handles, limit \in Limits : Readable(h) /\ ReadOutput(h, limit, NoReader)
  /\ UNCHANGED <<scene, runtimeVars, record, cancel, observing, sessionVars, handleVars, historyVars>>
GoOnReading ==
  /\ Free /\ reader # NoReader /\ ~reader.whole
  /\ IF Readable(reader.h) THEN ReadOutput(reader.h, reader.limit, reader) ELSE reader' = NoReader
  /\ UNCHANGED <<scene, runtimeVars, record, cancel, observing, sessionVars, handleVars, historyVars>>

-----------------------------------------------------------------------------
(* The command, and the registry's history (Executions has its rules).     *)

Writes(c, s) ==
  /\ process[c] = "running" /\ wrote[c][s] < Len(Script(c, s))
  /\ wrote' = [wrote EXCEPT ![c][s] = @ + 1]
  /\ UNCHANGED <<scene, process, cursor, record, cancel, observing, sessionVars, handleVars,
                 reader, historyVars>>

Exits(c) ==
  /\ process[c] = "running"
  /\ process' = [process EXCEPT ![c] = "exited"]
  /\ UNCHANGED <<scene, wrote, cursor, record, cancel, observing, sessionVars, handleVars,
                 reader, historyVars>>

Trims(c) ==
  /\ scene.trims /\ record[c] = "ended" /\ c \notin observing
  /\ record' = [record EXCEPT ![c] = "trimmed"]
  /\ UNCHANGED <<scene, runtimeVars, cancel, observing, sessionVars, handleVars, reader,
                 historyVars>>

Next ==
  \/ \E c \in Commands :
       \/ ExecuteShell(c) \/ ControlCommand(c) \/ ObserveOne(c) \/ DirectControl(c)
       \/ Exits(c) \/ Trims(c) \/ \E s \in Range(Streams) : Writes(c, s)
  \/ Observe \/ ObserverFails \/ ElevatedExec \/ BeginReading \/ GoOnReading

Spec == Init /\ [][Next]_vars

-----------------------------------------------------------------------------
(* Properties.                                                             *)

Said(c) == shown[c] \o pending[c]
Indices(c, s) == LET own == SelectSeq(Said(c), LAMBDA p : p.s = s)
                 IN  [n \in 1..Len(own) |-> own[n].i]

\* However polls, writes, kills and observations take turns, failed ones
\* included, no piece of output is answered twice, and each stream comes in the
\* order it was written unless a call beside the facade overtook what was
\* pending (take_pending and append_pending, facade.rs:1162-1201, 2064-2108).
OutputComesOnceInOrder ==
  \A c \in Commands, s \in Range(Streams) :
    LET at == Indices(c, s)
    IN  \A m, n \in 1..Len(at) : m < n => at[m] # at[n] /\ (aside[c] \/ at[m] < at[n])

\* While a session lives, output that the runtime handed out was shown, is pending
\* or is held by the filter; or it went with an answer that an error replaced, or a
\* note of truncation stands for it.  An error replaces an answer when the call to
\* the runtime fails, which puts back what was pending, and when the result cannot
\* be recorded, which does not (facade.rs:2101-2108).  For stderr this is claimed of
\* text and error strings, and not when a call beside the facade or an overflow
\* broke an envelope apart (facade.rs:1203-1222).
NothingVanishes ==
  \A c \in mapped, s \in Range(Streams) :
    (s = "stdout" \/ (~aside[c] /\ ~spilt[c])) =>
      \A n \in 1..cursor[c][s] :
        LET p == Script(c, s)[n]
        IN  p.k \in {"text", "error"} =>
              \/ p \in Range(Said(c)) \cup excused[c]
              \/ s = "stderr" /\ p \in Range(buffer[c])

\* CLIXML framing is never answered, wherever the runtime's answers cut the
\* stream (drain_public_stderr_protocol_buffer, facade.rs:7535-7578).
FramingStaysPrivate ==
  \A c \in Commands : ~aside[c] /\ ~spilt[c] =>
    \A p \in Range(Said(c)) : p.k \notin {"mark", "rest", "close"}

\* The client gets what the command wrote, or an error in its place: everything
\* once, in order, without the framing, however polls, failures and observations
\* cut it up.
OutputIsDelivered == OutputComesOnceInOrder /\ NothingVanishes /\ FramingStaysPrivate

\* After any sequence of retentions, evictions and expired sessions the tables of
\* the handle registry agree, are bounded, and a handle names the stream it reads
\* (output_handles.rs:33-156, primary_output_stream, facade.rs:2701-2714).
HandlesAgree ==
  LET private == {h \in DOMAIN handles : ~handles[h].local}
  IN  /\ ToSet(privateOrder) = private /\ Len(privateOrder) = Cardinality(private)
      /\ Cardinality(private) <= MaxPrivate
      /\ ToSet(localOrder) = DOMAIN handles \ private /\ Len(localOrder) <= MaxLocal
      /\ DOMAIN publicOf = {handles[h].ref : h \in private}
      /\ \A h \in private :
           publicOf[handles[h].ref] = h /\ handles[h].stream = handles[h].ref[2]

\* The pages of a text that does not change, each beginning where the one before
\* it said, are the text: nothing is lost or repeated at a boundary, and every
\* page makes progress.  The runtime's own pages of stdout are not claimed to
\* (public_local_output_page, public_stderr_page, facade.rs:2716-2805).
PagesAreWhole ==
  reader.steady /\ ~reader.bytewise =>
    /\ reader.pages <= Len(reader.text) + 1
    /\ reader.whole => reader.got = reader.text
=============================================================================
