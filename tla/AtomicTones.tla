----------------------------- MODULE AtomicTones -----------------------------
(***************************************************************************)
(* What tone and noTone promise a sketch: every pin plays one tone or none *)
(* and there is room for so many at a time.  A call is served alone; it    *)
(* first cuts off the tone of its pin and of no other, then starts the new *)
(* one with all its toggles.  A tone is refused only if there was no room  *)
(* when its call was let in.  A finite tone ends after its last toggle.    *)
(***************************************************************************)
EXTENDS Naturals, FiniteSets

CONSTANTS
  Thread,     \* who calls
  Pin,
  Request,    \* what tone is called with: [toggles, forever]
  Silence,    \* the request that asks for no sound
  NoCall,
  MaxTones,   \* tones at a time
  MaxCount    \* the longest finite tone

VARIABLES
  tones,      \* tones[p]: what pin p plays
  stage,      \* stage[t]: "idle", "called", "cut" or "done"
  call,       \* call[t]: pin and request of the call
  noRoom      \* there was no room when the call was let in

vars == <<tones, stage, call, noRoom>>

Quiet == [plays |-> FALSE, toggles |-> 0, forever |-> FALSE]
Playing == {p \in Pin : tones[p].plays}

Begun(r) == [plays |-> TRUE, forever |-> r.forever,
             toggles |-> IF r.toggles <= MaxCount THEN r.toggles ELSE MaxCount]

\* What pin p plays becomes v.
Plays(p, v) == tones' = [tones EXCEPT ![p] = v]

Moves(t, from, to) ==
  /\ stage[t] = from
  /\ stage' = [stage EXCEPT ![t] = to]

Init ==
  /\ tones = [p \in Pin |-> Quiet]
  /\ stage = [t \in Thread |-> "idle"]
  /\ call = [t \in Thread |-> NoCall]
  /\ noRoom = FALSE

Call(t, p, r, op) ==
  /\ \A u \in Thread : stage[u] = "idle"
  /\ Moves(t, "idle", "called")
  /\ call' = [call EXCEPT ![t] = [pin |-> p, req |-> r, op |-> op]]
  /\ noRoom' = (Cardinality(Playing) >= MaxTones)
  /\ UNCHANGED tones

Return(t) ==
  /\ Moves(t, "done", "idle")
  /\ call' = [call EXCEPT ![t] = NoCall]
  /\ noRoom' = FALSE
  /\ UNCHANGED tones

\* noTone.
Hush(t) ==
  /\ call[t].op = "noTone"
  /\ Moves(t, "called", "done")
  /\ Plays(call[t].pin, Quiet)
  /\ UNCHANGED <<call, noRoom>>

\* tone.
Refuse(t) ==
  /\ call[t].op = "tone"
  /\ noRoom /\ tones[call[t].pin] = Quiet
  /\ Moves(t, "called", "done")
  /\ UNCHANGED <<tones, call, noRoom>>

Cut(t) ==
  /\ call[t].op = "tone"
  /\ Moves(t, "called", "cut")
  /\ Plays(call[t].pin, Quiet)
  /\ UNCHANGED <<call, noRoom>>

StaySilent(t) ==
  /\ call[t].req = Silence
  /\ Moves(t, "cut", "done")
  /\ UNCHANGED <<tones, call, noRoom>>

Begin(t) ==
  /\ call[t].req # Silence
  /\ Moves(t, "cut", "done")
  /\ tones[call[t].pin] = Quiet /\ Cardinality(Playing) < MaxTones
  /\ Plays(call[t].pin, Begun(call[t].req))
  /\ UNCHANGED <<call, noRoom>>

\* A finite tone goes on by itself and ends.
Toggle(p) ==
  /\ tones[p].plays /\ ~tones[p].forever /\ tones[p].toggles > 0
  /\ Plays(p, [tones[p] EXCEPT !.toggles = @ - 1])
  /\ UNCHANGED <<stage, call, noRoom>>

End(p) ==
  /\ tones[p].plays /\ ~tones[p].forever /\ tones[p].toggles = 0
  /\ Plays(p, Quiet)
  /\ UNCHANGED <<stage, call, noRoom>>

Next ==
  \/ \E t \in Thread, p \in Pin, r \in Request : Call(t, p, r, "tone")
  \/ \E t \in Thread, p \in Pin : Call(t, p, Silence, "noTone")
  \/ \E t \in Thread : \/ Hush(t) \/ Refuse(t) \/ Cut(t) \/ StaySilent(t) \/ Begin(t) \/ Return(t)
  \/ \E p \in Pin : Toggle(p) \/ End(p)

Spec == Init /\ [][Next]_vars
=============================================================================
