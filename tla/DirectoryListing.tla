-------------------------- MODULE DirectoryListing --------------------------
(***************************************************************************)
(* WorkspaceService.list_directory and create_directory: the phone lists a *)
(* directory of the workspace while an agent fills and empties it.  The    *)
(* names are read one by one; of those that may be shown the first, in the *)
(* order directories before files and then by name, are kept.              *)
(*                                                                         *)
(* An entry is its place in that order.                                    *)
(***************************************************************************)
EXTENDS Integers, FiniteSets, FiniteSetsExt

CONSTANTS
    Entries,         \* bound: what may be in the directory
    Uploads,         \* the entry that is the uploads directory
    MaxEntries,      \* max_directory_entries
    Creators         \* callers of create_directory for one new directory

ASSUME ListingAssumption == Entries \subseteq Nat /\ Uploads \in Entries /\ MaxEntries \in Nat

NotListing == [step |-> "none"]
NotListed == [shown |-> {}, truncated |-> FALSE, read |-> {}]

VARIABLES
    present,     \* the entries of the directory
    listing,     \* the listing under way: what may still be read, and the
                 \* limit + 1 smallest of what was
    listed,      \* the last listing
    stayed,      \* what was there all the time of it
    made,        \* the directory that create_directory is asked for
    creators     \* what the callers of create_directory do

listingVars == <<present, listing, listed, stayed, made, creators>>

ListingInit ==
    /\ present = {Uploads}
    /\ listing = NotListing /\ listed = NotListed /\ stayed = {}
    /\ made = "none" /\ creators = [c \in Creators |-> "idle"]

---------------------------------------------------------------------------
(* What the operating system does.                                         *)

\* An entry that comes during a listing may be read or not, and so may one
\* that goes.
EntryComes ==
    /\ \E e \in Entries \ present :
         /\ present' = present \cup {e}
         /\ \/ UNCHANGED listing
            \/ listing.step = "scan" /\ e \notin listing.read /\ listing' = [listing EXCEPT !.left = @ \cup {e}]
    /\ UNCHANGED <<listed, stayed, made, creators>>

EntryGoes ==
    /\ \E e \in present \ {Uploads} :
         /\ present' = present \ {e}
         /\ stayed' = stayed \ {e}
         /\ \/ UNCHANGED listing
            \/ listing.step = "scan" /\ listing' = [listing EXCEPT !.left = @ \ {e}]
    /\ UNCHANGED <<listed, made, creators>>

---------------------------------------------------------------------------
(* list_directory.                                                         *)

SmallestLimitBug(entries) == {e \in entries : Cardinality({x \in entries : x < e}) < MaxEntries}
\* heapq.nsmallest(limit + 1, ...)
Smallest(entries) == {e \in entries : Cardinality({x \in entries : x < e}) < MaxEntries + 1}

ListBegins ==
    /\ listing = NotListing
    /\ listing' = [step |-> "scan", left |-> present, kept |-> {}, read |-> {}]
    /\ stayed' = present
    /\ UNCHANGED <<present, listed, made, creators>>

\* _sortable_directory_entry: the uploads directory is left out; an entry that
\* is gone by now stays, without its size
Sortable(e, entries) == IF e = Uploads THEN entries ELSE entries \cup {e}

ReadEntry ==
    /\ listing.step = "scan"
    /\ \E e \in listing.left :
         listing' = [step |-> "scan", left |-> listing.left \ {e}, read |-> listing.read \cup {e},
                     kept |-> Smallest(Sortable(e, listing.kept))]
    /\ UNCHANGED <<present, listed, stayed, made, creators>>

ListEnds ==
    /\ listing.step = "scan" /\ listing.left = {}
    /\ listed' = [shown |-> {e \in listing.kept : Cardinality({x \in listing.kept : x < e}) < MaxEntries},
                  truncated |-> Cardinality(listing.kept) > MaxEntries,
                  read |-> listing.read]
    /\ listing' = NotListing
    /\ UNCHANGED <<present, stayed, made, creators>>

---------------------------------------------------------------------------
(* create_directory.                                                       *)

\* It is looked at twice: for a file in its place, and for anything.
LooksForFile(c) ==
    /\ creators[c] = "idle"
    /\ creators' = [creators EXCEPT ![c] = IF made = "file" THEN "refused" ELSE "look"]
    /\ UNCHANGED <<present, listing, listed, stayed, made>>

LooksForAnything(c) ==
    /\ creators[c] = "look"
    /\ creators' = [creators EXCEPT ![c] = IF made = "none" THEN "make" ELSE "found"]
    /\ UNCHANGED <<present, listing, listed, stayed, made>>

\* mkdir(exist_ok=True) takes a directory that came in between for its own,
\* and fails for a file
MakesDirectory(c) ==
    /\ creators[c] = "make"
    /\ creators' = [creators EXCEPT ![c] = IF made = "file" THEN "denied" ELSE "created"]
    /\ made' = IF made = "none" THEN "directory" ELSE made
    /\ UNCHANGED <<present, listing, listed, stayed>>

AgentTakesName ==
    /\ made = "none"
    /\ made' \in {"file", "directory"}
    /\ UNCHANGED <<present, listing, listed, stayed, creators>>

\* Lists and new directories do not meet: the names are read of one directory,
\* and the new one is made in another.
ListingNext == EntryComes \/ EntryGoes \/ ListBegins \/ ReadEntry \/ ListEnds
MakingNext ==
    \/ AgentTakesName
    \/ \E c \in Creators : LooksForFile(c) \/ LooksForAnything(c) \/ MakesDirectory(c)
ListingSpec == ListingInit /\ [][ListingNext \/ MakingNext]_listingVars

---------------------------------------------------------------------------
(* Properties.                                                             *)

\* What stayed in the directory all through a listing is shown, unless the
\* listing says that it is cut and all that it shows comes before; it is cut
\* only where something was left out; the uploads are never shown.
ListingIsHonest ==
    [][ListEnds =>
        /\ Uploads \notin listed'.shown
        /\ \A e \in stayed \ ({Uploads} \cup listed'.shown) :
             listed'.truncated /\ Cardinality(listed'.shown) = MaxEntries /\ \A x \in listed'.shown : x < e
        /\ listed'.truncated => \E e \in listed'.read \ {Uploads} : e \notin listed'.shown]_listingVars

\* Who is told that the directory was made can use it, whatever others put in
\* its place between the looks and the call; who is told that it was there
\* finds something there.
ToldIsThere ==
    \A c \in Creators :
        /\ creators[c] = "created" => made = "directory"
        /\ creators[c] = "found" => made # "none"

\* What the phone is told of a directory is so, while others work in it.
DirectoryIsAsTold == ListingIsHonest /\ []ToldIsThere

=============================================================================
