---------------------------- MODULE ArchiveWalk ----------------------------
(***************************************************************************)
(* How an import reads a release: the walk takes the archive's entries one *)
(* by one, resolves the aliases when it has all of them, and pins a digest *)
(* to every path a job may use.  A worker unpacks the same archive with    *)
(* GNU tar, and has to find the same bytes under the same paths.           *)
(*                                                                         *)
(* Both are given the same entries here, whatever they are.  A path is one *)
(* name, already normalised; the digest of a file is the place of its      *)
(* entry in the archive.  The caps on sizes, and what only they refuse,    *)
(* are left out, and so are paths through a name: what is in a directory,  *)
(* or behind a link to one.                                                *)
(***************************************************************************)
EXTENDS Integers, Sequences, FiniteSets

CONSTANTS
  Name,      \* names an entry may have
  Kind,      \* Kind[n]: classify: the role of a pinned path, or None
  None,
  Hops,      \* hops an alias is followed: 8
  MaxEntries \* bound: entries of the archive, extension headers included

VARIABLES
  read,  \* entries read so far
  walk,  \* the walk: at, pending names, PAX header pending, seen, files, links
  given, \* tar's: the names extension headers give the next entry
  disk,  \* what tar has unpacked: disk[n] a digest, a link to a name, or nothing
  dirs   \* the names tar has since made directories of, in place of what was there

vars == <<read, walk, given, disk, dirs>>

NoGiven == [long |-> None, longLink |-> None, pax |-> None, paxLink |-> None]
Nothing == [link |-> None, digest |-> 0]
Walking == [at |-> "walking", path |-> None, link |-> None, pax |-> FALSE,
            seen |-> {}, files |-> {}, links |-> <<>>]
Refused == [Walking EXCEPT !.at = "refused"]

Init ==
  /\ read = 0 /\ walk = Walking /\ given = NoGiven
  /\ disk = [n \in Name |-> Nothing] /\ dirs = {}

(***************************************************************************)
(* Extension headers                                                       *)
(***************************************************************************)
(* One name for an entry: a second one refuses the archive.  The slip kept *)
(* for comparison takes the last.                                          *)
Slot_Last(slot, n) == [taken |-> FALSE, value |-> IF n = None THEN slot ELSE n]

Slot(slot, n) ==
  [taken |-> n # None /\ slot # None, value |-> IF n = None THEN slot ELSE n]

Named(path, link, pax) ==
  LET p == Slot(walk.path, path)
      l == Slot(walk.link, link)
  IN IF p.taken \/ l.taken \/ (pax /\ walk.pax) THEN Refused
     ELSE [walk EXCEPT !.path = p.value, !.link = l.value, !.pax = @ \/ pax]

NextEntry == walk.at = "walking" /\ read < MaxEntries /\ read' = read + 1

LongName(n) ==
  /\ NextEntry
  /\ walk'  = Named(n, None, FALSE)
  /\ given' = [given EXCEPT !.long = n]
  /\ UNCHANGED <<disk, dirs>>

LongLink(n) ==
  /\ NextEntry
  /\ walk'  = Named(None, n, FALSE)
  /\ given' = [given EXCEPT !.longLink = n]
  /\ UNCHANGED <<disk, dirs>>

(* Of two PAX headers GNU tar applies the last; the walk refuses a second. *)
PaxHeader(path, link) ==
  /\ NextEntry
  /\ walk'  = Named(path, link, TRUE)
  /\ given' = [given EXCEPT !.pax = path, !.paxLink = link]
  /\ UNCHANGED <<disk, dirs>>

(***************************************************************************)
(* Entries                                                                 *)
(***************************************************************************)
(* The names tar may use for an entry, given several.                      *)
Either(a, b, own) == IF {a, b} = {None} THEN {own} ELSE {a, b} \ {None}

Own(slot, own) == IF slot = None THEN own ELSE slot

Unpacks(own, target, digest) ==
  \E n \in Either(given.long, given.pax, own) :
  \E t \in IF target = None THEN {None} ELSE Either(given.longLink, given.paxLink, target) :
    /\ disk' = [disk EXCEPT ![n] = [link |-> t, digest |-> digest]]
    /\ dirs' = dirs \ {n}

Entry(w) == [w EXCEPT !.path = None, !.link = None, !.pax = FALSE]

(* A pinned path, file or alias, is named once.  The slip kept for         *)
(* comparison looks for files only.                                        *)
Twice_Files(n) == n \in {f.path : f \in walk.files}

Twice(n) == n \in walk.seen

WalkFile(n, digest) ==
  CASE Kind[n] = None -> Entry(walk)
    [] Kind[n] # None /\ Twice(n) -> Refused
    [] OTHER -> [Entry(walk) EXCEPT !.seen = @ \cup {n},
                                    !.files = @ \cup {[path |-> n, digest |-> digest]}]

File(own) ==
  /\ NextEntry
  /\ walk' = WalkFile(Own(walk.path, own), read')
  /\ Unpacks(own, None, read')
  /\ given' = NoGiven

WalkLink(n, target) ==
  CASE Kind[n] = None -> Entry(walk)
    [] Kind[n] # None /\ Twice(n) -> Refused
    [] OTHER -> [Entry(walk) EXCEPT !.seen = @ \cup {n},
                                    !.links = Append(@, [path |-> n, target |-> target])]

Symlink(own, target) ==
  /\ NextEntry
  /\ walk' = WalkLink(Own(walk.path, own), Own(walk.link, target))
  /\ Unpacks(own, target, 0)
  /\ given' = NoGiven

(* Of a directory the walk drops the name, whatever it is; tar makes it in *)
(* place of a file or a link.                                              *)
Directory(own) ==
  /\ NextEntry
  /\ walk' = Entry(walk)
  /\ \E n \in Either(given.long, given.pax, own) : dirs' = dirs \cup {n}
  /\ given' = NoGiven
  /\ UNCHANGED disk

(* A device, a hard link, an unsafe or global name, a size in PAX.         *)
Refuses ==
  /\ NextEntry
  /\ walk' = Refused
  /\ UNCHANGED <<given, disk, dirs>>

(***************************************************************************)
(* The aliases                                                             *)
(***************************************************************************)
End ==
  /\ walk.at = "walking"
  /\ walk' = [walk EXCEPT !.at = "aliases"]
  /\ UNCHANGED <<read, given, disk, dirs>>

FileAt(n)  == {f \in walk.files : f.path = n}
TargetOf(n) ==
  LET of == {i \in DOMAIN walk.links : walk.links[i].path = n}
  IN IF of = {} THEN None ELSE walk.links[CHOOSE i \in of : TRUE].target

(* The names an alias leads to, hop by hop, of its own kind; to the first  *)
(* that is a file, or an alias resolved before.                            *)
SameKind(k, n) == n # None /\ Kind[n] = k

Reached(l) ==
  LET hop[k \in 0..Hops - 1] ==
        IF k = 0 THEN l.target
        ELSE IF SameKind(Kind[l.path], hop[k - 1]) /\ FileAt(hop[k - 1]) = {}
             THEN TargetOf(hop[k - 1])
             ELSE None
  IN {n \in {hop[k] : k \in 0..Hops - 1} :
        SameKind(Kind[l.path], n) /\ FileAt(n) # {}}

Unresolved == {i \in DOMAIN walk.links : FileAt(walk.links[i].path) = {}}

Resolve ==
  /\ walk.at = "aliases" /\ Unresolved # {}
  /\ LET l == walk.links[CHOOSE i \in Unresolved : \A j \in Unresolved : i <= j]
     IN walk' = IF Reached(l) = {} THEN Refused
                ELSE [walk EXCEPT !.files = @ \cup
                        {[path |-> l.path, digest |-> f.digest] :
                           f \in UNION {FileAt(n) : n \in Reached(l)}}]
  /\ UNCHANGED <<read, given, disk, dirs>>

Accept ==
  /\ walk.at = "aliases" /\ Unresolved = {}
  /\ walk' = IF walk.files = {} THEN Refused ELSE [walk EXCEPT !.at = "accepted"]
  /\ UNCHANGED <<read, given, disk, dirs>>

Next ==
  \/ \E n \in Name : LongName(n) \/ LongLink(n) \/ File(n) \/ Directory(n)
  \/ \E n, t \in Name : Symlink(n, t)
  \/ \E n, t \in Name \cup {None} : PaxHeader(n, t)
  \/ Refuses \/ End \/ Resolve \/ Accept

Spec == Init /\ [][Next]_vars

(***************************************************************************)
(* Properties                                                              *)
(***************************************************************************)
(* The names a reader of the unpacked data comes by from a name, and what  *)
(* it finds: nothing where there is a directory.                           *)
Follows(n) ==
  LET at[k \in 0..Cardinality(Name)] ==
        IF k = 0 THEN n
        ELSE IF at[k - 1] = None THEN None ELSE disk[at[k - 1]].link
  IN {at[k] : k \in DOMAIN at} \ {None}

Reads(n) ==
  IF Follows(n) \cap dirs = {} THEN {disk[m].digest : m \in Follows(n)} \ {0} ELSE {}

Pinned(n) == {f.digest : f \in FileAt(n)}

(* Of an archive the walk accepts, a worker that unpacks it reads under    *)
(* every pinned path the bytes of the digest and never others, whatever    *)
(* names headers give, and whichever of two tar would follow; unless a     *)
(* directory entry has taken the place of what the path names or leads to, *)
(* where it reads nothing.                                                 *)
PinnedIsUnpacked ==
  walk.at = "accepted" =>
    \A n \in Name : Kind[n] # None =>
      \/ Reads(n) = Pinned(n)
      \/ Reads(n) = {} /\ Follows(n) \cap dirs # {}

(* A worker that unpacks an archive the walk accepts has every file the    *)
(* walk pins.  The walk keeps a file and an alias from one path, and not   *)
(* a directory from either's: an archive that names a pinned file again as *)
(* a directory is accepted, and no worker has the file.                    *)
PinnedIsThere ==
  walk.at = "accepted" => \A n \in Name : Kind[n] # None => Reads(n) = Pinned(n)
=============================================================================
