----------------------------- MODULE ExecLinks -----------------------------
(* Exec of programs that live in an overlay.  execve writes the name of a   *)
(* short link under /.b over the guest's path and lets the kernel go on.    *)
(* The directory is one for all sandboxes of the host, each of which counts *)
(* through its slots on its own; the links go when the sandbox is dropped.  *)
(*                                                                         *)
(* A program is named by where its path leads: "lower" (no copy in the      *)
(* overlay), "cow" and "tmp" (redirected), "short" (redirected, a path      *)
(* shorter than a link), "deep" (its overlay path is too long), "proc".     *)
EXTENDS FiniteSets, Naturals, Sequences, SequencesExt

CONSTANTS
  Boxes,                   \* sandboxes, each with one guest memory
  Guests,                  \* the sandbox of each guest thread
  Programs,                \* programs the guests name
  Base, CODE_LEN,          \* digits of a slot's name
  Probes,                  \* tries of one create
  MaxExecs,                \* bound: exec calls of one life of a sandbox
  MaxDrops,                \* bound: sandboxes that are dropped
  Habits                   \* what guests and hosts may do besides: shared, crash

VARIABLES
  links,                   \* /.b: name of a slot -> what it points to
  counter, created,        \* Symlinks of each sandbox
  path,                    \* the path buffer of each guest memory
  ecall,                   \* execve of each guest thread
  execs, drops
execVars == <<links, counter, created, path, ecall, execs, drops>>

Threads_ == DOMAIN Guests
MAX_ENTRIES == Base ^ CODE_LEN
\* There are slots enough for the tries of one create.  The last conjunct is the
\* definition of ^, which the provers do not have.
ASSUME ExecAssumption ==
  /\ "none" \notin Boxes /\ Guests \in [Threads_ -> Boxes]
  /\ Base \in Nat \ {0} /\ CODE_LEN \in Nat /\ Probes \in Nat /\ Probes <= MAX_ENTRIES
  /\ Base ^ 0 = 1 /\ \A n \in 0 .. CODE_LEN : Base ^ (n + 1) = Base * Base ^ n
NoLink == [box |-> "none", program |-> "none"]
\* encode_index, format_path
Code(idx) == [i \in 1 .. CODE_LEN |-> (idx \div Base ^ (CODE_LEN - i)) % Base]
Codes == [1 .. CODE_LEN -> 0 .. Base - 1]
Named(p) == [link |-> FALSE, program |-> p, code |-> Code(0)]
Short(c) == [link |-> TRUE, program |-> "none", code |-> c]
Rest == [pc |-> "idle", program |-> "none", tries |-> 0, taken |-> {}, code |-> Code(0), ran |-> NoLink]

ExecInit ==
  /\ links = [c \in Codes |-> NoLink]
  /\ counter = [b \in Boxes |-> 0] /\ created = [b \in Boxes |-> <<>>]
  /\ path = [b \in Boxes |-> Named("lower")]
  /\ ecall = [g \in Threads_ |-> Rest]
  /\ execs = [b \in Boxes |-> 0] /\ drops = 0

Replied(g, pc) == ecall' = [ecall EXCEPT ![g] = [Rest EXCEPT !.pc = pc, !.program = ecall[g].program]]
\* Threads of one memory take turns at its buffer, unless "shared".
OnlyOne(g) == \A h \in Threads_ : Guests[h] = Guests[g] /\ h # g => ecall[h].pc = "idle"
Turn(g) == OnlyOne(g) \/ "shared" \in Habits

-----------------------------------------------------------------------------
\* The guest writes a path and calls execve.
call_execve(g) ==
  LET b == Guests[g] IN
  /\ ecall[g].pc = "idle" /\ execs[b] < MaxExecs /\ Turn(g)
  /\ \E p \in Programs :
       /\ path' = [path EXCEPT ![b] = Named(p)]
       /\ ecall' = [ecall EXCEPT ![g] = [Rest EXCEPT !.pc = "route", !.program = p]]
  /\ execs' = [execs EXCEPT ![b] = @ + 1]
  /\ UNCHANGED <<links, counter, created, drops>>

\* sys_execve up to the creation of the link, under the state lock: the route
\* of the path, the backend behind it, the checks of create.
Refusal(p) == IF p.link THEN "blocked"
              ELSE CASE p.program = "proc" -> "EINVAL"
                     [] p.program = "short" -> "EPERM"
                     [] p.program = "deep" -> "ENAMETOOLONG"
                     [] OTHER -> "none"
Redirected(p) == p \in {"cow", "tmp"}
sys_execve(g) ==
  LET b == Guests[g]
      p == path[b] IN
  /\ ecall[g].pc = "route" /\ \A h \in Threads_ : Guests[h] = b => ecall[h].pc # "probe"
  /\ IF Refusal(p) # "none" THEN Replied(g, Refusal(p))
     ELSE ecall' = [ecall EXCEPT ![g].pc = IF Redirected(p.program) THEN "probe" ELSE "kernel"]
  /\ UNCHANGED <<links, counter, created, path, execs, drops>>

\* Mutant: a slot that is taken is tried again.
probe_stays(g) ==
  LET b == Guests[g]
      c == Code(counter[b] % MAX_ENTRIES) IN
  /\ ecall[g].pc = "probe" /\ ecall[g].tries < Probes
  /\ IF links[c] = NoLink
     THEN /\ links' = [links EXCEPT ![c] = [box |-> b, program |-> path[b].program]]
          /\ created' = [created EXCEPT ![b] = Append(@, counter[b] % MAX_ENTRIES)]
          /\ counter' = [counter EXCEPT ![b] = @ + 1]
          /\ ecall' = [ecall EXCEPT ![g].pc = "write", ![g].code = c]
     ELSE /\ ecall' = [ecall EXCEPT ![g].tries = @ + 1, ![g].taken = @ \cup {c}]
          /\ UNCHANGED <<links, created, counter>>
  /\ UNCHANGED <<path, execs, drops>>
\* Mutant: a slot that is taken is used as well, with the link it has.
probe_shares(g) ==
  LET b == Guests[g]
      c == Code(counter[b] % MAX_ENTRIES) IN
  /\ ecall[g].pc = "probe" /\ ecall[g].tries < Probes
  /\ counter' = [counter EXCEPT ![b] = @ + 1]
  /\ links' = IF links[c] = NoLink THEN [links EXCEPT ![c] = [box |-> b, program |-> path[b].program]] ELSE links
  /\ created' = [created EXCEPT ![b] = Append(@, counter[b] % MAX_ENTRIES)]
  /\ ecall' = [ecall EXCEPT ![g].pc = "write", ![g].code = c]
  /\ UNCHANGED <<path, execs, drops>>
\* One try of Symlinks::create: the kernel's symlink decides who has a slot.
probe(g) ==
  LET b == Guests[g]
      idx == counter[b] % MAX_ENTRIES
      c == Code(idx) IN
  /\ ecall[g].pc = "probe" /\ ecall[g].tries < Probes
  /\ counter' = [counter EXCEPT ![b] = @ + 1]
  /\ IF links[c] = NoLink
     THEN /\ links' = [links EXCEPT ![c] = [box |-> b, program |-> path[b].program]]
          /\ created' = [created EXCEPT ![b] = Append(@, idx)]
          /\ ecall' = [ecall EXCEPT ![g].pc = "write", ![g].code = c]
     ELSE /\ ecall' = [ecall EXCEPT ![g].tries = @ + 1, ![g].taken = @ \cup {c}]
          /\ UNCHANGED <<links, created>>
  /\ UNCHANGED <<path, execs, drops>>
no_space(g) ==
  /\ ecall[g].pc = "probe" /\ ecall[g].tries = Probes
  /\ ecall' = [ecall EXCEPT ![g].pc = "ENOSPC"]
  /\ UNCHANGED <<links, counter, created, path, execs, drops>>

\* Mutant: a write that fails has changed the path.
write_string_early(g) ==
  /\ ecall[g].pc = "write"
  /\ path' = [path EXCEPT ![Guests[g]] = Short(ecall[g].code)]
  /\ \/ ecall' = [ecall EXCEPT ![g].pc = "kernel"]
     \/ Replied(g, "EFAULT")
  /\ UNCHANGED <<links, counter, created, execs, drops>>
\* write_string, and the reply that lets the kernel go on.  A page the guest
\* may not write, such as that of a literal, fails it.
write_string(g) ==
  LET b == Guests[g] IN
  /\ ecall[g].pc = "write"
  /\ \/ path' = [path EXCEPT ![b] = Short(ecall[g].code)] /\ ecall' = [ecall EXCEPT ![g].pc = "kernel"]
     \/ UNCHANGED path /\ Replied(g, "EFAULT")
  /\ UNCHANGED <<links, counter, created, execs, drops>>

\* The kernel reads the path and runs what it leads to, or fails and returns
\* to the guest.
Leads(b) == IF path[b].link THEN links[path[b].code] ELSE [box |-> b, program |-> path[b].program]
kernel_execve(g) ==
  /\ ecall[g].pc = "kernel"
  /\ \/ ecall' = [ecall EXCEPT ![g].pc = "ran", ![g].ran = Leads(Guests[g])]
     \/ Replied(g, "failed")
  /\ UNCHANGED <<links, counter, created, path, execs, drops>>

\* The new program, or the caller of an exec that failed, goes on; the next path
\* is written anew.
Refused == {"blocked", "EINVAL", "EPERM", "ENAMETOOLONG", "ENOSPC", "EFAULT"}
go_on(g) ==
  /\ ecall[g].pc \in Refused \cup {"failed", "ran"}
  /\ ecall' = [ecall EXCEPT ![g] = Rest]
  /\ path' = IF OnlyOne(g) THEN [path EXCEPT ![Guests[g]] = Named("lower")] ELSE path
  /\ UNCHANGED <<links, counter, created, execs, drops>>

\* Mutant: the first link a guest made is left behind.
drop_links_tail(b) == {Code(i) : i \in ToSet(IF created[b] = <<>> THEN <<>> ELSE Tail(created[b]))}
\* Drop of a sandbox, whose workers have ended, and the next one; after a crash
\* of the daemon the drop does not run.
drop_links(b) == {Code(i) : i \in ToSet(created[b])}
drop(b) == \E crash \in IF "crash" \in Habits THEN BOOLEAN ELSE {FALSE} :
  /\ drops < MaxDrops /\ \A g \in Threads_ : Guests[g] = b => ecall[g].pc = "idle"
  /\ links' = IF crash THEN links
              ELSE [c \in Codes |-> IF c \in drop_links(b) THEN NoLink ELSE links[c]]
  /\ created' = [created EXCEPT ![b] = <<>>] /\ counter' = [counter EXCEPT ![b] = 0]
  /\ path' = [path EXCEPT ![b] = Named("lower")]
  /\ execs' = [execs EXCEPT ![b] = 0] /\ drops' = drops + 1
  /\ UNCHANGED ecall

ExecNext ==
  \/ \E g \in Threads_ : call_execve(g) \/ sys_execve(g) \/ probe(g) \/ no_space(g) \/ write_string(g)
                         \/ kernel_execve(g) \/ go_on(g)
  \/ \E b \in Boxes : drop(b)

-----------------------------------------------------------------------------
(* The program that runs is the one the guest named, from the overlay of    *)
(* its own sandbox, however execs of other sandboxes take, pass and free    *)
(* slots meanwhile (sys_execve, Symlinks::create).                          *)
RunsWhatWasNamed ==
  \A g \in Threads_ : ecall[g].pc = "ran" => ecall[g].ran = [box |-> Guests[g], program |-> ecall[g].program]

(* Every link under /.b is one of exactly one sandbox that will remove it:  *)
(* none outlives its sandbox, and no drop removes another's (Drop).         *)
LinksOwned ==
  \A c \in Codes : \A b \in Boxes :
    links[c].box = b <=> \E i \in ToSet(created[b]) : Code(i) = c

(* An exec that fails for want of a slot found as many different slots     *)
(* taken as create may try: a slot is never tried twice in one call, across *)
(* the wrap of the counter and whatever others take and free (create).      *)
ProbesSpread ==
  \A g \in Threads_ : ecall[g].pc = "ENOSPC" => Cardinality(ecall[g].taken) = Probes

(* A guest whose exec the supervisor refuses finds its path as it wrote it: *)
(* the name of a link is written over it only for the kernel to read        *)
(* (sys_execve, write_string).                                              *)
PathKept ==
  \A g \in Threads_ : ecall[g].pc \in Refused => path[Guests[g]] = Named(ecall[g].program)

(* Links and slots are accounted for, and a refused exec leaves no trace    *)
(* (Symlinks, sys_execve).                                                  *)
LinksRight == LinksOwned /\ ProbesSpread /\ PathKept
=============================================================================
