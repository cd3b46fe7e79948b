------------------------------ MODULE Registry ------------------------------
(***************************************************************************)
(* The registry of resources (registry/mod.rs) and its paths               *)
(* (registry/path.rs).  A path is a sequence of names and separators; the  *)
(* tree of nodes is the set of its handlers, each with the names that lead *)
(* to it: the directories are the proper prefixes of these.                *)
(***************************************************************************)
EXTENDS Naturals, Sequences, SequencesExt

Sep == "/"

\* Components::next: a separator is a component of its own, Root, unless it
\* ends the name before it.
IsComponent(path, i) == path[i] # Sep \/ i = 1 \/ path[i - 1] = Sep

Positions(path) ==
  SelectSeq([i \in DOMAIN path |-> i], LAMBDA i : IsComponent(path, i))

Components(path) == [k \in DOMAIN Positions(path) |-> path[Positions(path)[k]]]

\* Components::as_path after k components.
PathAfter(path, k) ==
  IF k = Len(Positions(path)) THEN <<>>
  ELSE SubSeq(path, Positions(path)[k + 1], Len(path))

\* Components::next_back: the separators at the end are skipped first.
Trimmed(path) == SubSeq(path, 1, SelectLastInSeq(path, LAMBDA x : x # Sep))

IsAbsolute(path) == path # <<>> /\ path[1] = Sep

\* Node::add and Registry::register: an error where a handler is in the way
\* or the last name exists already.
Register(nodes, path, handler) ==
  LET names == Tail(Components(Trimmed(path)))
      free  == \A n \in nodes : ~IsPrefix(n.names, names) /\ ~IsPrefix(names, n.names)
  IN  IF IsAbsolute(path) /\ names # <<>> /\ free
      THEN nodes \cup {[names |-> names, handler |-> handler]}
      ELSE nodes

\* Node::find: the first handler on the way answers for the rest of the path.
\* A path that ends at a directory is a todo!, and the root, "." or ".." below
\* a directory is a panic.
find_handler(nodes, path) ==
  LET names == Tail(Components(path))
      hits  == {n \in nodes : IsPrefix(n.names, names)}
      odd   == SelectInSeq(names, LAMBDA x : x \in {Sep, ".", ".."})
      dirs  == IF odd = 0 THEN names ELSE SubSeq(names, 1, odd - 1)
  IN  IF ~IsAbsolute(path) THEN [found |-> "invalid", rest |-> <<>>]
      ELSE IF hits = {}
           THEN [found |-> IF \E n \in nodes : IsPrefix(dirs, n.names)
                           THEN "panic" ELSE "missing", rest |-> <<>>]
      ELSE LET n == CHOOSE x \in hits : TRUE
           IN  [found |-> n.handler, rest |-> PathAfter(path, 1 + Len(n.names))]
=============================================================================
