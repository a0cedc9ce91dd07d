---------------------------- MODULE Provisioning ----------------------------
(***************************************************************************)
(* How identities and secrets get onto both ends: the bundle files         *)
(* (provisioning.rs), the program that generates and reissues them         *)
(* (provision.rs), and the collector's start over a directory of them      *)
(* (collector.rs).                                                         *)
(*                                                                         *)
(* A bundle file is written by truncating it and then writing its text, so *)
(* that a full disk or a killed program leaves a part of it; it is read    *)
(* file by file while the other program may be writing. A text is the      *)
(* sequence of its lines, [key, value], with the value a tuple of numbers; *)
(* the digits a cut takes from a number are a division by 16. Paths are    *)
(* numbers, in their sort order.                                           *)
(***************************************************************************)
EXTENDS Registries, FiniteSets, Functions

CONSTANTS
    Ids,         \* sender_ids that random_sender_id may return
    NodePath,    \* the path generate gives the bundle of an id
    OtherPaths,  \* further paths an operator may reissue to
    Listed,      \* paths in the collector's directory, ending in ".bundle": generate
                 \* is told to fill this directory
    Ciphers,     \* the argument --cipher
    Layouts,     \* the argument --layouts
    MaxIssued    \* bound: secrets drawn

ASSUME PathAssumption ==
    /\ Ids \subseteq Nat /\ IsFiniteSet(Ids)
    /\ OtherPaths \subseteq Nat /\ Listed \subseteq Nat
    /\ NodePath \in [Ids -> Listed \ OtherPaths]
    /\ \A a, b \in Ids : NodePath[a] = NodePath[b] => a = b
    /\ Layouts \in Seq(Nat \X Nat)
    /\ MaxIssued \in Nat

Paths == {NodePath[id] : id \in Ids} \cup OtherPaths

VARIABLES
    files,      \* the text at each path
    job,        \* the running catp-provision
    collector,  \* the collector: starting, or up with its peers
    issued,     \* history: bundles made by generate and reissue
    enrolled,   \* history: ids a whole bundle of which was written to the directory
    settled     \* history: no file was touched since the collector began to start

vars == <<files, job, collector, issued, enrolled, settled>>

NoFile == <<[key |-> "none", value |-> <<>>]>>
NoJob == [cmd |-> "none", writes |-> <<>>, opened |-> FALSE, existing |-> {}]
NoPeers == [id \in {} |-> <<>>]
Down == [up |-> FALSE, starting |-> FALSE, pending |-> {}, read |-> <<>>,
         peers |-> NoPeers, due |-> {}]

-----------------------------------------------------------------------------
Line(key, value) == [key |-> key, value |-> value]

\* Bundle::to_text, without its comment line.
ToText(b) ==
    << Line("sender_id", <<b.sender_id>>),
       Line("device_secret", <<b.device_secret>>),
       Line("cipher_id", <<b.cipher_id>>) >>
    \o [i \in DOMAIN b.layouts |-> Line("layout", b.layouts[i])]

\* A line Bundle::parse has an error for.
Garbled == Line("garbled", <<>>)

\* What a line cut short may read as. A number may lose its last digits and still
\* parse; a device_secret must have all 64.
CutLines(line) ==
    IF line.key = "device_secret" THEN {Garbled}
    ELSE {Garbled, [line EXCEPT !.value[Len(line.value)] = @ \div 16]}

\* What write_all may leave of a text when it fails.
Torn(text) ==
    {SubSeq(text, 1, n) : n \in 0 .. Len(text)} \cup
    UNION {{Append(SubSeq(text, 1, n - 1), line) : line \in CutLines(text[n])} :
              n \in DOMAIN text}

Fields == {"sender_id", "device_secret", "cipher_id"}

HasField(text, key) == \E i \in DOMAIN text : text[i].key = key

\* The number in the last line of a key.
Field(text, key) ==
    LET last == CHOOSE i \in DOMAIN text :
                    /\ text[i].key = key
                    /\ \A j \in DOMAIN text : text[j].key = key => j <= i
    IN  text[last].value[1]

\* The layouts of a text, pushed line by line.
LayoutsOf(text) ==
    LET upTo[n \in 0 .. Len(text)] ==
            IF n = 0 THEN <<>>
            ELSE IF text[n].key = "layout" THEN Append(upTo[n - 1], text[n].value)
            ELSE upTo[n - 1]
    IN  upTo[Len(text)]

\* Mutation (a missing cipher_id is defaulted).
ParseDefaulting(text) ==
    IF \/ \E i \in DOMAIN text : text[i].key \notin Fields \cup {"layout"}
       \/ \E key \in Fields \ {"cipher_id"} : ~HasField(text, key)
    THEN Err("Format")
    ELSE Ok([sender_id     |-> Field(text, "sender_id"),
             device_secret |-> Field(text, "device_secret"),
             cipher_id     |-> IF HasField(text, "cipher_id") THEN Field(text, "cipher_id")
                                                              ELSE HmacSha256T64,
             layouts       |-> LayoutsOf(text)])

\* Bundle::parse: every field but the layouts is needed, and its last line counts.
Parse(text) ==
    IF \/ \E i \in DOMAIN text : text[i].key \notin Fields \cup {"layout"}
       \/ \E key \in Fields : ~HasField(text, key)
    THEN Err("Format")
    ELSE Ok([sender_id     |-> Field(text, "sender_id"),
             device_secret |-> Field(text, "device_secret"),
             cipher_id     |-> Field(text, "cipher_id"),
             layouts       |-> LayoutsOf(text)])

\* Bundle::into_peer_config, with or without an inbound rate limit.
IntoPeerConfig(b, limited) ==
    IF b.cipher_id \notin CipherIds THEN Err("CipherUnimplemented")
    ELSE IF RequiresInboundRateLimit(b.cipher_id) /\ ~limited
         THEN Err("CipherRequiresRateLimit")
    ELSE Ok([secret |-> b.device_secret, cipher |-> b.cipher_id, layouts |-> b.layouts])

-----------------------------------------------------------------------------
Init ==
    /\ files = [p \in Paths |-> NoFile]
    /\ job = NoJob
    /\ collector = Down
    /\ issued = {}
    /\ enrolled = {}
    /\ settled = TRUE

Existing == {p \in Paths : files[p] # NoFile}

Start(cmd, writes) ==
    /\ job = NoJob
    /\ Cardinality(issued) + Len(writes) <= MaxIssued
    /\ job' = [cmd |-> cmd, writes |-> writes, opened |-> FALSE, existing |-> Existing]
    /\ issued' = issued \cup {writes[i].bundle : i \in DOMAIN writes}
    /\ UNCHANGED <<files, collector, enrolled, settled>>

\* Mutation (the directory is not looked at).
BatchesUnchecked(n) ==
    {ids \in [1 .. n -> Ids \ {0}] : IsInjective(ids)}

\* The sender_ids of a batch of n: none is 0, drawn twice, or on disk already.
Batches(n) ==
    {ids \in [1 .. n -> Ids \ {0}] :
        /\ IsInjective(ids)
        /\ \A i \in 1 .. n : files[NodePath[ids[i]]] = NoFile}

\* cmd_generate: the whole batch is drawn before the first file is written.
Generate(ids, cipher, layouts) ==
    /\ cipher \in CipherIds
    /\ Start("generate",
             [i \in DOMAIN ids |->
                 [path   |-> NodePath[ids[i]],
                  bundle |-> [sender_id |-> ids[i],
                              device_secret |-> Cardinality(issued) + i,
                              cipher_id |-> cipher, layouts |-> layouts]]])

\* cmd_reissue: a fresh secret, and everything else as it was read.
Reissue(old, out) ==
    /\ IsOk(Parse(files[old]))
    /\ Start("reissue",
             << [path   |-> out,
                 bundle |-> [Parse(files[old]).value EXCEPT
                                !.device_secret = Cardinality(issued) + 1]] >>)

\* Where an operator has a bundle of id reissued to: in place, or to a file that has
\* no other node's bundle. The program itself overwrites any file it is told to.
Targets(id) ==
    {NodePath[id]} \cup
    {p \in OtherPaths : ~IsOk(Parse(files[p])) \/ Parse(files[p]).value.sender_id = id}

Current == Head(job.writes)

Touched ==
    /\ settled' = FALSE
    /\ UNCHANGED <<collector, issued>>

\* write_file opens the file, which empties or creates it.
Open ==
    /\ job # NoJob /\ ~job.opened
    /\ files' = [files EXCEPT ![Current.path] = <<>>]
    /\ job' = [job EXCEPT !.opened = TRUE]
    /\ UNCHANGED enrolled
    /\ Touched

\* write_all succeeds, and the loop goes on to the next bundle, if there is one.
Write ==
    /\ job.opened
    /\ files' = [files EXCEPT ![Current.path] = ToText(Current.bundle)]
    /\ job' = IF Len(job.writes) = 1 THEN NoJob
              ELSE [job EXCEPT !.writes = Tail(@), !.opened = FALSE]
    /\ enrolled' = IF Current.path \in Listed
                   THEN enrolled \cup {Current.bundle.sender_id} ELSE enrolled
    /\ Touched

\* write_all fails, and the program with it.
WriteFails ==
    /\ job.opened
    /\ \E text \in Torn(ToText(Current.bundle)) :
        files' = [files EXCEPT ![Current.path] = text]
    /\ job' = NoJob
    /\ UNCHANGED enrolled
    /\ Touched

\* The program is killed, or a file cannot be opened.
Abort ==
    /\ job # NoJob
    /\ job' = NoJob
    /\ UNCHANGED <<files, collector, issued, enrolled, settled>>

\* A collector is started: load_bundles_dir lists the directory.
StartCollector ==
    /\ collector' = [Down EXCEPT
                        !.starting = TRUE,
                        !.pending = Existing \cap Listed,
                        !.due = enrolled]
    /\ settled' = TRUE
    /\ UNCHANGED <<files, job, issued, enrolled>>

\* Mutation (a malformed file is skipped).
ReadPast(p) ==
    [collector EXCEPT !.pending = @ \ {p},
                      !.read = IF IsOk(Parse(files[p])) THEN Append(@, Parse(files[p]).value)
                                                        ELSE @]

\* The collector after it read a file; a malformed one stops it.
Read(p) ==
    IF IsOk(Parse(files[p]))
    THEN [collector EXCEPT !.pending = @ \ {p}, !.read = Append(@, Parse(files[p]).value)]
    ELSE Down

\* The files are read in the order of their paths.
ReadFile ==
    /\ collector.starting
    /\ \E p \in collector.pending :
          /\ \A q \in collector.pending : p <= q
          /\ collector' = Read(p)
    /\ UNCHANGED <<files, job, issued, enrolled, settled>>

\* Mutation (provision keeps a peer it has).
ProvisionFirst(peers, b) ==
    [id \in DOMAIN peers \cup {b.sender_id} |->
        IF id \in DOMAIN peers THEN peers[id] ELSE IntoPeerConfig(b, TRUE).value]

\* Collector::provision of a bundle, in the place of a peer of the same sender_id.
Provision(peers, b) ==
    [id \in DOMAIN peers \cup {b.sender_id} |->
        IF id = b.sender_id THEN IntoPeerConfig(b, TRUE).value ELSE peers[id]]

\* All files are read: the next bundle is provisioned, or the start fails.
ProvisionNext ==
    /\ collector.starting /\ collector.pending = {} /\ collector.read # <<>>
    /\ LET b == Head(collector.read)
       IN  collector' = IF IsOk(IntoPeerConfig(b, TRUE))
                        THEN [collector EXCEPT !.read = Tail(@), !.peers = Provision(@, b)]
                        ELSE Down
    /\ UNCHANGED <<files, job, issued, enrolled, settled>>

\* All bundles are provisioned.
Serve ==
    /\ collector.starting /\ collector.pending = {} /\ collector.read = <<>>
    /\ collector' = [collector EXCEPT !.up = TRUE, !.starting = FALSE]
    /\ UNCHANGED <<files, job, issued, enrolled, settled>>

Next ==
    \/ \E n \in 1 .. Cardinality(Ids) : \E ids \in Batches(n), cipher \in Ciphers :
          Generate(ids, cipher, Layouts)
    \/ \E old \in {p \in Paths : IsOk(Parse(files[p]))} :
          \E out \in Targets(Parse(files[old]).value.sender_id) : Reissue(old, out)
    \/ Open
    \/ Write
    \/ WriteFails
    \/ Abort
    \/ StartCollector
    \/ ReadFile
    \/ ProvisionNext
    \/ Serve

Spec == Init /\ [][Next]_vars

-----------------------------------------------------------------------------
\* A second generate into a directory adds to it: no bundle that was there when it
\* started is changed, emptied ones included, so that no provisioned node loses
\* its secret (the comment in cmd_generate).
GenerateOnlyAdds ==
    [][job.cmd = "generate" => \A p \in job.existing : files'[p] = files[p]]_vars

\* A collector that comes up serves every node that had been given a whole bundle
\* when the start began, whatever was interrupted, torn or rewritten since: a bad
\* file blocks the start, "not produce a collector quietly missing a peer".
NoPeerMissing == collector.up => collector.due \subseteq DOMAIN collector.peers

ClippedFrom(short, layouts) ==
    /\ Len(short) <= Len(layouts)
    /\ \A i \in DOMAIN short :
        \/ short[i] = layouts[i]
        \/ i = Len(short) /\ short[i] = <<layouts[i][1], layouts[i][2] \div 16>>

\* What a collector serves was issued as one bundle: a torn file never mixes two
\* bundles, and never changes an id, a secret or a suite. What it may lose, without
\* any error, are layouts at its end.
OnlyLayoutsLost ==
    collector.up =>
        \A id \in DOMAIN collector.peers : \E b \in issued :
            /\ b.sender_id = id
            /\ b.device_secret = collector.peers[id].secret
            /\ b.cipher_id = collector.peers[id].cipher
            /\ ClippedFrom(collector.peers[id].layouts, b.layouts)

BundleOf(p, id) == IsOk(Parse(files[p])) /\ Parse(files[p]).value.sender_id = id

\* A collector started since the last file was written serves for each node the
\* secret of its bundle on disk, the one a reissue tells the operator to install.
\* Of two bundles for one node, that of the path sorting later is served, which may
\* be the older one.
CutoverAgrees ==
    collector.up /\ settled =>
        \A id \in DOMAIN collector.peers, p \in Listed \cap Paths :
            /\ BundleOf(p, id)
            /\ ~\E q \in Listed \cap Paths : q > p /\ BundleOf(q, id)
            => collector.peers[id].secret = Parse(files[p]).value.device_secret
=============================================================================
