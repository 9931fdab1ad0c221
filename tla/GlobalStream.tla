---------------------------- MODULE GlobalStream ----------------------------
(***************************************************************************)
(* GlobalStream of src/src/pretrain/data/global_stream.py, the canonical   *)
(* stream every rank's view promises to be: a buffer of tokens refilled a  *)
(* document at a time and cut into windows of SeqLen + 1.                  *)
(***************************************************************************)
EXTENDS SourceWalk

VARIABLES
    walkers,   \* consumed documents and epoch per source
    drawn,     \* state of the mix generator: refills drawn from it
    buf,       \* tokens not yet in a window
    emitted,   \* windows_emitted
    window,    \* the last window
    saved      \* the GlobalStreamState of the last checkpoint

stream == <<walkers, drawn, buf, emitted, window, saved>>

NoWindow == << >>
State == [walkers |-> walkers, drawn |-> drawn, carry |-> buf, emitted |-> emitted]
Origin == [walkers |-> [s \in Names |-> NewWalker], drawn |-> 0, carry |-> << >>,
           emitted |-> 0]

From(state) ==
    /\ walkers' = state.walkers /\ drawn' = state.drawn
    /\ buf' = state.carry /\ emitted' = state.emitted

Init ==
    /\ walkers = Origin.walkers /\ drawn = 0 /\ buf = << >> /\ emitted = 0
    /\ window = NoWindow /\ saved = Origin

Refill ==
    /\ Len(buf) < Target
    /\ LET name == Draw(drawn + 1)
           doc == NextRef(walkers[name], name, 0, 1)
       IN  /\ walkers' = [walkers EXCEPT ![name] = Advanced(@, name, 0, 1)]
           /\ buf' = buf \o TokensOf(doc, 0, Length(doc)) \o <<Eos>>
    /\ drawn' = drawn + 1
    /\ UNCHANGED <<emitted, window, saved>>

Emit ==
    /\ Len(buf) >= Target
    /\ window' = SubSeq(buf, 1, Target)
    /\ buf' = SubSeq(buf, Target + 1, Len(buf))
    /\ emitted' = emitted + 1
    /\ UNCHANGED <<walkers, drawn, saved>>

Snapshot == saved' = State /\ UNCHANGED <<walkers, drawn, buf, emitted, window>>

\* A new process starts from the last state saved.
Reopen == From(saved) /\ window' = NoWindow /\ UNCHANGED saved

Next == Refill \/ Emit \/ Snapshot \/ Reopen
Spec == Init /\ [][Next]_stream
=============================================================================
