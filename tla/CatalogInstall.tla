--------------------------- MODULE CatalogInstall ---------------------------
(***************************************************************************)
(* Installation of the pinned catalog package before the server starts     *)
(* (openepw/deploy.py).  The catalog is switched by a transaction, the     *)
(* masks by exchanging folders, the marker by writing a file; a step may   *)
(* fail and the process may die between any two of them.                   *)
(*                                                                         *)
(* A generation, a masks folder and the marker are named by the package    *)
(* they were made of; a generation imported by hand has no package.        *)
(***************************************************************************)
EXTENDS Naturals

CONSTANTS Packages,    \* the packages that may be pinned
          ByHand,      \* a generation of `openepw catalog import`
          Nothing,     \* no file, folder or row
          MaxStarts,   \* bound on starts of the process
          MaxDeaths    \* bound on deaths within main()

VARIABLES active,      \* what the active generation was made of
          current, previous, \* footprints, footprints.previous
          marker,      \* catalog/package.json
          pin,         \* OPENEPW_CATALOG_SHA256 of this start
          at,          \* where main() is
          starts, deaths,
          found,       \* history: catalog, masks and broken when this start began
          broken       \* history: a start ended between the exchange of the masks and the marker

vars == <<active, current, previous, marker, pin, at, starts, deaths, found, broken>>
-----------------------------------------------------------------------------
Folders == Packages \cup {Nothing}
Places == {"down", "fetch", "move", "place", "activate", "discard", "mark", "prepare", "serving"}

TypeOK ==
    /\ active \in Folders \cup {ByHand}
    /\ {current, previous, marker, pin} \subseteq Folders
    /\ at \in Places
    /\ starts \in 0..MaxStarts /\ deaths \in 0..MaxDeaths

Init ==
    /\ active \in {Nothing, ByHand}
    /\ current = Nothing /\ previous = Nothing /\ marker = Nothing
    /\ pin = Nothing /\ at = "down"
    /\ starts = 0 /\ deaths = 0
    /\ broken = FALSE /\ found = <<active, current, broken>>
-----------------------------------------------------------------------------
has_catalog == active # Nothing
disk == <<active, current, previous, marker>>
counts == <<starts, deaths>>
Goto(from, to) == at = from /\ at' = to

\* main: without a pin, or with the one the marker names, there is nothing to install.
UpToDate(p) == has_catalog /\ marker = p
Start ==
    /\ starts < MaxStarts /\ starts' = starts + 1
    /\ \E p \in Folders :
          /\ pin' = p
          /\ at = "down" /\ at' = IF p = Nothing \/ UpToDate(p) THEN "prepare" ELSE "fetch"
    /\ found' = <<active, current, broken>>
    /\ UNCHANGED <<disk, deaths, broken>>

\* Download, verification and staging of a generation that is not active yet: any of it may be
\* refused, and the server starts with what it has.
Fetch == Goto("fetch", "move") /\ UNCHANGED <<disk, pin, counts, found, broken>>
Refused == Goto("fetch", "prepare") /\ UNCHANGED <<disk, pin, counts, found, broken>>

\* The old masks make way for the new ones, in two renames.
Move ==
    /\ Goto("move", "place")
    /\ previous' = current /\ current' = Nothing
    /\ broken' = TRUE
    /\ UNCHANGED <<active, marker, pin, counts, found>>
MoveFails ==
    /\ Goto("move", "prepare")
    /\ previous' = Nothing
    /\ UNCHANGED <<active, current, marker, pin, counts, found, broken>>
Place ==
    /\ Goto("place", "activate")
    /\ current' = pin
    /\ UNCHANGED <<active, previous, marker, pin, counts, found, broken>>

\* A rename that fails raises OSError, which main reports; nothing is put back.
PlaceFails ==
    /\ Goto("place", "prepare")
    /\ UNCHANGED <<disk, pin, counts, found, broken>>

Activate ==
    /\ Goto("activate", "discard")
    /\ active' = pin
    /\ UNCHANGED <<current, previous, marker, pin, counts, found, broken>>

\* The activation raised: the masks are exchanged again (faulty: the new ones stay) and the
\* error ends main; the entry point is started again.
RollForward ==
    /\ Goto("activate", "down")
    /\ broken' = found[3]
    /\ UNCHANGED <<disk, pin, counts, found>>
RollBack ==
    /\ Goto("activate", "down")
    /\ current' = previous /\ previous' = Nothing
    /\ broken' = found[3]
    /\ UNCHANGED <<active, marker, pin, counts, found>>

Discard ==
    /\ Goto("discard", "mark")
    /\ previous' = Nothing
    /\ UNCHANGED <<active, current, marker, pin, counts, found, broken>>

\* The marker is written in place: a failure may leave it unreadable.
WriteMarker ==
    /\ Goto("mark", "prepare")
    /\ marker' = pin /\ broken' = FALSE
    /\ UNCHANGED <<active, current, previous, pin, counts, found>>
MarkFails ==
    /\ Goto("mark", "prepare")
    /\ marker' \in {marker, Nothing}
    /\ UNCHANGED <<active, current, previous, pin, counts, found, broken>>

\* warm_catalog writes derived files only; the server starts whether it succeeds or not.
Prepare == Goto("prepare", "serving") /\ UNCHANGED <<disk, pin, counts, found, broken>>

\* The server ends, or the process dies before it serves.
Stop ==
    /\ Goto("serving", "down")
    /\ UNCHANGED <<disk, pin, counts, found, broken>>
Die ==
    /\ at \notin {"down", "serving"} /\ at' = "down"
    /\ deaths < MaxDeaths /\ deaths' = deaths + 1
    /\ UNCHANGED <<disk, pin, starts, found, broken>>

\* `openepw catalog import` between two starts: masks and marker stay.
Import ==
    /\ at = "down" /\ active' = ByHand
    /\ UNCHANGED <<current, previous, marker, pin, at, counts, found, broken>>

Next ==
    \/ Start \/ Fetch \/ Refused \/ Move \/ MoveFails \/ Place \/ PlaceFails \/ Activate
    \/ RollBack \/ Discard \/ WriteMarker \/ MarkFails \/ Prepare \/ Stop \/ Die \/ Import

Spec == Init /\ [][Next]_vars
-----------------------------------------------------------------------------
\* "The installed package's SHA-256 is recorded; a start with the same pin does nothing": what
\* the marker vouches for is what is served, however many starts came before, as long as none
\* of them ended between the exchange of the masks and the marker.
MarkerIsTrue ==
    ~broken /\ at \in {"serving", "down"} /\ marker # Nothing =>
        current = marker /\ active \in {marker, ByHand}

\* "A failed upgrade leaves the previous catalog and footprints in place": under the same
\* condition a start serves what it found or the whole package it was to install.
AllOrNothing ==
    ~broken /\ at = "serving" =>
        \/ <<active, current, broken>> = found
        \/ active = pin /\ current = pin /\ marker = pin
=============================================================================
