------------------------------ MODULE Conversion ------------------------------
(***************************************************************************)
(* src/src/pretrain/cli/dcp_safetensors.py: a checkpoint directory packed  *)
(* into one safetensors file, and a directory unpacked from one.  Tensors  *)
(* travel in the payload, everything else of the state dict in the header  *)
(* (the skeleton), and the other files of a whole checkpoint as a sidecar. *)
(*                                                                         *)
(* The program is sequential and touches nothing of the run: it is a       *)
(* function of the directory it is pointed at, whatever a job has left     *)
(* there, and of the point at which it is killed.                          *)
(***************************************************************************)
EXTENDS TrainRun

-----------------------------------------------------------------------------
(* to-safetensors *)

\* Names _SIDECAR_FILE_RE admits: they are copied as they are, torn or not.
SidecarFilesWithoutSpike ==
    {"meta", "global_stream", "state_hash", "sampler", "batch_hasher"}
SidecarFiles ==
    {"meta", "global_stream", "spike_protocol", "state_hash", "sampler",
     "batch_hasher"}

\* The state dict comes back from DCP's metadata and RNG files are decoded: a
\* torn one of either raises.  No marker is asked for.
Packable(d) == Has(d, "dcp") /\ d["rng"].status # "torn"

Carried(d) == {f \in SidecarFiles \cup {"rng"} : ~Missing(d, f)}
NoSidecar == [f \in {} |-> Absent]

\* keys are the top-level keys of --keys, {} without it; a filtered file must
\* not look like a resume point.
TopLevel == {"model", "optim"}
Packed(d, keys) ==
    LET data == d["dcp"].data
        kept == IF keys = {} THEN TopLevel ELSE keys
    IN  [payload  |-> [model |-> IF "model" \in kept THEN data.weights ELSE << >>,
                       optim |-> IF "optim" \in kept THEN data.moments ELSE << >>],
         skeleton |-> [top |-> kept, lr |-> data.lr],
         sidecar  |-> IF keys = {} THEN [f \in Carried(d) |-> d[f]] ELSE NoSidecar]

-----------------------------------------------------------------------------
(* from-safetensors *)

\* The order of the writes: the single-shard DCP, the files by name, the RNG
\* states, the marker.
UnpackOrder ==
    << "dcp", "batch_hasher", "global_stream", "meta", "sampler",
       "spike_protocol", "state_hash", "rng", "_COMPLETE" >>

\* What is written under a name; a bare DCP directory has none of a
\* checkpoint's entries, the output being the dcp directory itself.
Entry(p, f) ==
    IF DOMAIN p.sidecar = {} THEN Absent
    ELSE CASE f = "dcp" -> Written([weights |-> p.payload.model,
                                    moments |-> p.payload.optim,
                                    lr |-> p.skeleton.lr])
           [] f = "_COMPLETE" -> Written(<< >>)
           [] f \in DOMAIN p.sidecar -> p.sidecar[f]
           [] OTHER -> Absent

\* The directory after the first n writes; the last of them torn by a kill.
Done(f, n) == \E i \in 1 .. n : UnpackOrder[i] = f
Unpacked(p, n) == [f \in Files |-> IF Done(f, n) THEN Entry(p, f) ELSE Absent]
UnpackedTorn(p, n) == [Unpacked(p, n) EXCEPT ![UnpackOrder[n]] = Torn]

Converted(d) == Unpacked(Packed(d, {}), Len(UnpackOrder))

\* Everything a conversion of d, finished or killed, may leave behind.
Outcomes(d) ==
    {Unpacked(Packed(d, {}), n) : n \in 0 .. Len(UnpackOrder)}
        \cup {UnpackedTorn(Packed(d, {}), n) : n \in 1 .. Len(UnpackOrder) - 1}

-----------------------------------------------------------------------------
\* "A bit-exact resume point" (dcp_safetensors.py:37-38): whatever a crash has
\* left in a directory of the run, and wherever the conversion of it is
\* killed, a converted directory that load() accepts rebuilds the run's state
\* at that step, and a directory that loads converts into one that loads.  "A
\* --keys subset must NOT look like a resume point" (:463).
ConversionResumesExactly ==
    \A s \in DOMAIN dirs : Packable(dirs[s]) =>
        /\ \A d \in Outcomes(dirs[s]) : Loadable(d) => Restored(d) = trail[s]
        /\ Loadable(dirs[s]) => Loadable(Converted(dirs[s]))
        /\ \A keys \in (SUBSET TopLevel) \ {{}} :
              ~Loadable(Unpacked(Packed(dirs[s], keys), Len(UnpackOrder)))
=============================================================================
