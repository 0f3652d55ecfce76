------------------------------ MODULE Gocharm -------------------------------
(* The gocharm command (cmd/gocharm): it builds the charm of a package in a  *)
(* temporary directory, running the package's own registration to find out   *)
(* what there is to write, and then replaces the charm directory entry by    *)
(* entry.  The user may edit the charm directory between the runs, while a   *)
(* build is under way and while the directory is being replaced, and may     *)
(* interrupt gocharm; any step may fail.                                     *)
EXTENDS Registry

CONSTANTS
  MaxRuns, MaxEdits, MaxFaults   \* bounds

ASSUME GocharmAssumption ==
  MaxRuns \in Nat /\ MaxEdits \in Nat /\ MaxFaults \in Nat

(* The entries of a charm directory, each standing for its kind: "bin" also  *)
(* for "src", "README.md" for "assets" and whatever else gocharm allows and  *)
(* never writes.                                                             *)
Yaml      == {"metadata.yaml", "config.yaml"}
Allowed   == Yaml \cup {"bin", "hooks", "revision", "README.md"}
Hidden    == {".git"}
Entries   == Allowed \cup Hidden \cup {"notes"}

(* Who wrote an entry, if it is there, and what is in it: for revision a     *)
(* number, or nothing if there is no number to be read.                      *)
NoEntry       == [by |-> "nobody", data |-> << >>]
Generated(x)  == [by |-> "gocharm", data |-> <<x>>]
ByUser        == [by |-> "user", data |-> << >>]
Empty         == [e \in Entries |-> NoEntry]
Is(dir, e)    == dir[e].by # "nobody"

NoRevision == -1

VARIABLES
  dest,      \* the charm directory
  temp,      \* the temporary one
  pc,        \* what gocharm does next
  rev,       \* the revision it has read
  todo,      \* the entries still to be removed or copied
  runs, edits, faults,
  \* History, read by the properties and by no action:
  delivered, \* what the last complete run has built, if nothing has touched
             \* the directory since that run last looked at it
  late       \* what the user has edited since the run in progress did so

hist  == <<delivered, late>>
build == <<dest, temp, pc, rev, todo, runs, edits, faults, hist>>
vars  == <<reg, build>>

Init ==
  /\ NewRegistry
  /\ dest = Empty /\ temp = Empty /\ pc = "idle"
  /\ rev = NoRevision /\ todo = {}
  /\ runs = 0 /\ edits = 0 /\ faults = 0 /\ delivered = Empty /\ late = {}

Goto(step) == pc' = step

-----------------------------------------------------------------------------
(* The user writes or removes an entry: between the runs, during the build,  *)
(* or after gocharm has last looked at what there is to remove.              *)
UserEdits ==
  /\ pc \in {"idle", "build", "remove", "copy"}
  /\ edits < MaxEdits /\ edits' = edits + 1
  /\ \E e \in Entries :
       /\ \/ dest' \in {[dest EXCEPT ![e] = NoEntry], [dest EXCEPT ![e] = ByUser]}
          \/ /\ e = "revision"
             /\ dest' = [dest EXCEPT ![e] = [ByUser EXCEPT !.data = <<0>>]]
       /\ late' = IF pc \in {"remove", "copy"} THEN late \cup {e} ELSE late
  /\ dest' # dest
  /\ delivered' = Empty
  /\ UNCHANGED <<reg, temp, pc, rev, todo, runs, faults>>

-----------------------------------------------------------------------------
(* canClean gives what has to be removed, or an error.                       *)
Visible(dir) == {e \in Entries \ Hidden : Is(dir, e)}

Autogenerated(dir, e) == dir[e].by = "gocharm"

CannotClean(dir) ==
  \E e \in Visible(dir) :
    e \notin Allowed \/ (e \in Yaml /\ ~Autogenerated(dir, e))

(* gocharm ends, with an error or without.                                   *)
Ends ==
  /\ Goto("idle") /\ temp' = Empty /\ rev' = NoRevision /\ todo' = {}
  /\ late' = {}

Start ==
  /\ pc = "idle" /\ runs < MaxRuns /\ runs' = runs + 1
  /\ IF CannotClean(dest)
       THEN Ends
       ELSE Goto("revision") /\ UNCHANGED <<temp, rev, todo, late>>
  /\ UNCHANGED <<reg, dest, edits, faults, delivered>>

(* A revision that is no number, or a negative one, is an error.             *)
ReadRevision ==
  /\ pc = "revision"
  /\ IF ~Is(dest, "revision")
       THEN Goto("build") /\ UNCHANGED <<temp, rev, todo, late>>
       ELSE IF dest["revision"].data = << >>
              THEN Ends
              ELSE /\ Goto("build") /\ rev' = dest["revision"].data[1]
                   /\ UNCHANGED <<temp, todo, late>>
  /\ UNCHANGED <<reg, dest, runs, edits, faults, delivered>>

(* The runhook binary is compiled; the data tells one build from another.    *)
Compile ==
  /\ pc = "build"
  /\ temp' = [temp EXCEPT !["bin"] = Generated(runs)]
  /\ Goto("inspect")
  /\ UNCHANGED <<reg, dest, rev, todo, runs, edits, faults, hist>>

(* The inspect program registers.                                            *)
Inspect ==
  /\ pc = "inspect"
  /\ Register
  /\ UNCHANGED build

(* It ends; it panics when the registration has, and when there is a peer    *)
(* relation, for which it has made no map.                                   *)
InspectPanics ==
  /\ pc = "inspect"
  /\ panicked \/ WithRole("peer") # {}
  /\ Ends
  /\ Exit
  /\ UNCHANGED <<dest, runs, edits, faults, delivered>>

(* hooks, metadata.yaml and, if there are options, config.yaml are written.  *)
Written ==
  [temp EXCEPT
     !["hooks"] = Generated(RegisteredHooks),
     !["metadata.yaml"] = Generated([provides  |-> WithRole("provider"),
                                     requires  |-> WithRole("requirer"),
                                     resources |-> DOMAIN resources]),
     !["config.yaml"] = IF DOMAIN config = {} THEN NoEntry
                        ELSE Generated(DOMAIN config)]

WriteCharm ==
  /\ pc = "inspect"
  /\ ~panicked /\ WithRole("peer") = {}
  /\ temp' = Written
  /\ Exit
  /\ Goto("writerev")
  /\ UNCHANGED <<dest, rev, todo, runs, edits, faults, hist>>

WriteRevision ==
  /\ pc = "writerev"
  /\ temp' = IF rev = NoRevision THEN temp
             ELSE [temp EXCEPT !["revision"] = Generated(rev + 1)]
  /\ Goto("clean")
  /\ UNCHANGED <<reg, dest, rev, todo, runs, edits, faults, hist>>

(* cleanDestination looks again, for the build took its time.                *)
CleanUnchecked ==                                        \* a mutant
  /\ pc = "clean"
  /\ todo' = Visible(dest) /\ Goto("remove")
  /\ UNCHANGED <<reg, dest, temp, rev, runs, edits, faults, hist>>

Clean ==
  /\ pc = "clean"
  /\ IF CannotClean(dest)
       THEN Ends
       ELSE /\ todo' = Visible(dest) /\ Goto("remove")
            /\ UNCHANGED <<temp, rev, late>>
  /\ UNCHANGED <<reg, dest, runs, edits, faults, delivered>>

RemoveEntry ==
  /\ pc = "remove"
  /\ \E e \in todo :
       todo' = todo \ {e} /\ dest' = [dest EXCEPT ![e] = NoEntry]
  /\ delivered' = Empty
  /\ UNCHANGED <<reg, temp, pc, rev, runs, edits, faults, late>>

CopyWrittenOnly ==                                       \* a mutant
  /\ pc = "remove"
  /\ todo' = {e \in Allowed : Is(temp, e)} /\ Goto("copy")
  /\ delivered' = Empty
  /\ UNCHANGED <<reg, dest, temp, rev, runs, edits, faults, late>>

StartCopy ==
  /\ pc = "remove" /\ todo = {}
  /\ todo' = {e \in Allowed : Is(temp, e)} /\ Goto("copy")
  /\ delivered' = Empty
  /\ UNCHANGED <<reg, dest, temp, rev, runs, edits, faults, late>>

CopyEntry ==
  /\ pc = "copy"
  /\ \E e \in todo :
       todo' = todo \ {e} /\ dest' = [dest EXCEPT ![e] = temp[e]]
  /\ UNCHANGED <<reg, temp, pc, rev, runs, edits, faults, hist>>

(* fs.Copy may refuse to write over what the user has put there since.       *)
CopyRefused ==
  /\ pc = "copy" /\ \E e \in todo : Is(dest, e)
  /\ Ends
  /\ UNCHANGED <<reg, dest, runs, edits, faults, delivered>>

Finish ==
  /\ pc = "copy" /\ todo = {}
  /\ delivered' = IF late = {} THEN temp ELSE Empty
  /\ Ends
  /\ UNCHANGED <<reg, dest, runs, edits, faults>>

(* A step fails or gocharm is interrupted; what was being removed or copied  *)
(* may be half done, and half a file does not begin with the comment.        *)
Fails ==
  /\ pc # "idle" /\ faults < MaxFaults /\ faults' = faults + 1
  /\ \/ UNCHANGED dest
     \/ /\ pc \in {"remove", "copy"}
        /\ \E e \in todo :
             dest' = [dest EXCEPT ![e] = [by |-> "torn", data |-> << >>]]
  /\ delivered' = IF pc \in {"remove", "copy"} THEN Empty ELSE delivered
  /\ Ends
  /\ Exit
  /\ UNCHANGED <<runs, edits>>

Next ==
  \/ Start \/ ReadRevision \/ Compile \/ Inspect \/ InspectPanics
  \/ WriteCharm \/ WriteRevision \/ Clean \/ RemoveEntry \/ StartCopy
  \/ CopyEntry \/ CopyRefused \/ Finish
  \/ UserEdits \/ Fails

Spec == Init /\ [][Next]_vars

-----------------------------------------------------------------------------
(* What gocharm must leave alone: hidden files, files it does not know and   *)
(* yaml files it has not written.                                            *)
Protected(e) ==
  \/ e \in Hidden /\ Is(dest, e)
  \/ e \notin Allowed /\ Is(dest, e)
  \/ e \in Yaml /\ dest[e].by = "user"

(* Only the user changes what is protected, although it may appear while a   *)
(* build is under way, after gocharm has first looked (main.go:105), or      *)
(* while the directory is being replaced.  The exception is a yaml file that *)
(* the user writes after the last look (main.go:171): what is there by then  *)
(* is removed by its name, or copied over.                                   *)
UserFilesKept ==
  [][\A e \in Entries :
       /\ Protected(e) /\ (e \in Yaml => e \notin late)
       /\ dest'[e] # dest[e]
       => edits' # edits]_vars

(* After a complete run, if nobody edited the directory while it was being   *)
(* replaced, it holds what was built and, but for hidden files, nothing      *)
(* else: no hook, option or binary of an earlier one; and it still does      *)
(* after later runs that failed before they replaced anything ("so we have   *)
(* less chance of deleting everything from the destination without having    *)
(* something to replace it with", main.go:113).                              *)
DeliveredIsThere ==
  delivered # Empty => \A e \in Entries \ Hidden : dest[e] = delivered[e]
=============================================================================
