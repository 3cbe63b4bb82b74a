------------------------------- MODULE MountPaths -------------------------------
(***************************************************************************)
(* How the mounts browser translates paths (module/mounts.go): a path in   *)
(* the relay's container to the path on the host that is mounted there,    *)
(* and a path on the host to the path a devcontainer sees it at.           *)
(*                                                                         *)
(* A path is the sequence of its segments.  A mount without a source, such *)
(* as a tmpfs, has the source NoSource.  An operator that may find nothing *)
(* returns a set of at most one element.                                   *)
(***************************************************************************)
EXTENDS Integers, Sequences

CONSTANTS Segments, NoSource

ASSUME PathsAssumption ==
  /\ Segments \cap {"", ".", ".."} = {}
  /\ NoSource \notin Seq(Segments)

Paths == Seq(Segments)

Mount == [source : Paths \cup {NoSource}, destination : Paths, rw : BOOLEAN]

(* Mutant: ".." is a segment like any other. *)
cleanDots(path) == SelectSeq(path, LAMBDA s : s \notin {"", "."})

(* path.Clean of "/" + path: ".." at the top stays at the top. *)
clean(path) ==
  LET upTo[i \in 0 .. Len(path)] ==
        IF i = 0 THEN <<>>
        ELSE IF path[i] \in {"", "."} THEN upTo[i - 1]
        ELSE IF path[i] # ".." THEN Append(upTo[i - 1], path[i])
        ELSE SubSeq(upTo[i - 1], 1, Len(upTo[i - 1]) - 1)
  IN  upTo[Len(path)]

pathHasPrefix(path, base) ==
  Len(base) <= Len(path) /\ \A k \in DOMAIN base : path[k] = base[k]

(* relativeContainerPath *)
Below(base, path) == SubSeq(path, Len(base) + 1, Len(path))

(* Mutant: the first mount point that covers the path. *)
FirstPoint(points, path) ==
  LET Covers(k) == points[k] # NoSource /\ pathHasPrefix(path, points[k])
  IN  {k \in DOMAIN points : Covers(k) /\ \A j \in DOMAIN points : Covers(j) => k <= j}

(* The first of the longest mount points that cover the path. *)
BestPoint(points, path) ==
  LET Covers(k) == points[k] # NoSource /\ pathHasPrefix(path, points[k])
      Before(k, j) == \/ Len(points[k]) > Len(points[j])
                      \/ Len(points[k]) = Len(points[j]) /\ k <= j
  IN  {k \in DOMAIN points : Covers(k) /\ \A j \in DOMAIN points : Covers(j) => Before(k, j)}

bestMountByDestination(mounts, path) ==
  BestPoint([k \in DOMAIN mounts |-> mounts[k].destination], path)

bestMountBySource(mounts, path) ==
  BestPoint([k \in DOMAIN mounts |-> mounts[k].source], path)

mountedSourcePath(mounts, path) ==
  {mounts[k].source \o Below(mounts[k].destination, path) :
     k \in {k \in bestMountByDestination(mounts, path) : mounts[k].source # NoSource}}

containerPathForMountedSource(mounts, source) ==
  {[path |-> mounts[k].destination \o Below(mounts[k].source, source), writable |-> mounts[k].rw] :
     k \in bestMountBySource(mounts, source)}
===============================================================================
