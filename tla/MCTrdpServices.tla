--------------------------- MODULE MCTrdpServices ---------------------------
(***************************************************************************)
(* The services around process data: message data over UDP and over TCP,   *)
(* sessions and their sockets, memory, queues, threads and time of the     *)
(* abstraction layer, marshalling, the DNS client and train topology       *)
(* information.  One run explores them all, one at a time: "which" is the  *)
(* component that moves, and the others stay in an initial state.          *)
(***************************************************************************)
EXTENDS TrdpMd, TrdpTcp, TrdpSession, Vos, TauMarshall, TauDnr, TauTti

VARIABLE which

vars == <<which, mdVars, tcVars, seVars, vmVars, vqVars, vtVars, maVars, dnVars, ttVars>>

----------------------------------------------------------------------------
\* Vos: two classes of blocks, one block of each to begin with
BlockSizes == <<1, 2>>
BlocksAtStart == <<1, 1>>
BlocksByDefault == <<3, 2>>

\* With VmArea = 8, these sizes and tables VmOnePlace is violated: there is no room for the
\* second class, and vos_memInit gives a block of the first back to it.
ThreeSizes == <<1, 3, 3>>
NoTable == <<0, 0, 0>>
ThreeByDefault == <<2, 2, 0>>

\* TauMarshall: data sets of up to three elements, a count followed by an array among them; one nested
\* data set of basic types, one with an array of variable length, one that is unknown, one that
\* contains itself
El(type, size) == [type |-> type, size |-> size]
Single == {El(t, 1) : t \in {"U8", "U16", "U32", "T48", "T64", "U64", "in1", "in2", "in3", "self"}}
Arrays == {El(t, n) : t \in {"U8", "U32", "T48", "U64", "in1"}, n \in {0, 2}}
DataSets ==
  LET els == Single \cup Arrays
  IN  {<<e>> : e \in els} \cup {<<e, f>> : e, f \in els}
        \cup {<<El("U8", 1), e, f>> : e \in Arrays, f \in els}
Nested == [in1 |-> <<El("U8", 1), El("U32", 1)>>,
           in2 |-> <<El("U8", 1), El("U16", 0), El("T48", 1)>>,
           self |-> <<El("U8", 1), El("self", 1)>>]

\* TauDnr: a hosts file with one name, and the counts the train begins with
HostFiles == {<<3>>}
TrainAtStart == [etb |-> 1, op |-> 1, n |-> 0]
CountsAtStart == {[etb |-> 1, op |-> 1]}

\* TauTti: a train of two consists, then one that has lost the first and has no operational directory
Trains == <<[etb |-> 1, op |-> 1, trn |-> 1, cst |-> <<"c1", "c2">>],
            [etb |-> 2, op |-> 0, trn |-> 7, cst |-> <<"c2">>]>>

----------------------------------------------------------------------------
Init ==
  /\ which \in {"md", "tcp", "se", "vm", "vq", "vt", "ma", "dn", "tt"}
  /\ MdInit /\ TcpInit /\ SeInit /\ VmInit /\ VqInit /\ VtInit /\ DnInit /\ TtInit
  /\ MaInit /\ (which # "ma" => maDs = <<El("U8", 1)>> /\ maSeed = 0 /\ maRoom = 64)

Next ==
  /\ UNCHANGED which
  /\ \/ which = "md" /\ UNCHANGED <<tcVars, seVars, vmVars, vqVars, vtVars, maVars, dnVars, ttVars>> /\ MdNext
     \/ which = "tcp" /\ UNCHANGED <<mdVars, seVars, vmVars, vqVars, vtVars, maVars, dnVars, ttVars>> /\ TcpNext
     \/ which = "se" /\ UNCHANGED <<mdVars, tcVars, vmVars, vqVars, vtVars, maVars, dnVars, ttVars>> /\ SeNext
     \/ which = "vm" /\ UNCHANGED <<mdVars, tcVars, seVars, vqVars, vtVars, maVars, dnVars, ttVars>> /\ VmNext
     \/ which = "vq" /\ UNCHANGED <<mdVars, tcVars, seVars, vmVars, vtVars, maVars, dnVars, ttVars>> /\ VqNext
     \/ which = "vt" /\ UNCHANGED <<mdVars, tcVars, seVars, vmVars, vqVars, maVars, dnVars, ttVars>> /\ VtNext
     \/ which = "ma" /\ UNCHANGED <<mdVars, tcVars, seVars, vmVars, vqVars, vtVars, dnVars, ttVars>> /\ MaNext
     \/ which = "dn" /\ UNCHANGED <<mdVars, tcVars, seVars, vmVars, vqVars, vtVars, maVars, ttVars>> /\ DnNext
     \/ which = "tt" /\ UNCHANGED <<mdVars, tcVars, seVars, vmVars, vqVars, vtVars, maVars, dnVars>> /\ TtNext

\* Fairness of message data only: while another component moves no session of it is open.
Spec == Init /\ [][Next]_vars /\ MdFair
=============================================================================
