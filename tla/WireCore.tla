------------------------------- MODULE WireCore -------------------------------
(***************************************************************************)
(* The per-client protocol core of waylandd (HeadlessWireCore): the object  *)
(* registry and the rows its managers keep beside it.  A manager of the     *)
(* source is a map from object ids to states that name other objects; here  *)
(* every such entry is a row [k, id, of, at]: the interface k, the id it is *)
(* kept under, the object it refers to and a second reference or state.     *)
(* The registry and the rows are changed by different lines of each         *)
(* handler, and ids are used again as soon as delete_id has been written:   *)
(* what can go wrong is that the two disagree.                              *)
(*                                                                          *)
(* Two kinds of client are modelled.  Any client sends every request with   *)
(* every argument.  An orderly client (orderly = TRUE) keeps its own list,  *)
(* mine, of the objects it has made and follows the protocol's rules on it: *)
(* it names objects of the right interface, asks for one role or extension  *)
(* of a kind, and destroys an object after everything that refers to it.    *)
(* It knows nothing of the server's rows.                                   *)
(***************************************************************************)
EXTENDS Integers, FiniteSets

CONSTANTS
  Ids,          \* object ids the client uses (below 0xff000000)
  Outputs,      \* names of outputs
  None,         \* no object, the absent Option
  Clients,      \* kinds of client: whether orderly, and the globals and requests it uses
  MaxSurfaces, MaxRegions, MaxDamage, MaxCallbacks,  \* per-client budgets
  MaxPool,      \* MAX_FAKE_SHM_POOL_BYTES, in units of a buffer
  MaxTotal,     \* MAX_FAKE_SHM_TOTAL_BYTES, in the same units
  MaxInput      \* bound on the input commands queued at a time

ASSUME BudgetAssumption ==
  /\ {MaxSurfaces, MaxRegions, MaxDamage, MaxCallbacks} \subseteq Nat \ {0}
  /\ MaxPool \in Nat \ {0}
  /\ MaxTotal \in Nat \ {0}

ASSUME IdAssumption == IsFiniteSet(Ids) /\ None \notin Ids

ASSUME ClientAssumption == Clients \subseteq [orderly : BOOLEAN, globals : SUBSET STRING]

VARIABLES
  orderly,  \* whether the client follows the protocol
  bound,    \* the globals and requests it uses
  core,     \* the server's state for this client
  mine,     \* rows an orderly client keeps of its own objects
  gone      \* "no", or what ended the connection

vars == <<orderly, bound, core, mine, gone>>

(* The state of a new HeadlessWireCore, and what is left of one that was    *)
(* dropped with its connection.                                             *)
Blank ==
  [obj       |-> [i \in Ids |-> None],     \* registry.objects
   tab       |-> {},                       \* rows of the managers
   role      |-> [i \in Ids |-> None],     \* surfaces.roles
   pairs     |-> {},                       \* pointer_constraints.active_pairs
   counts    |-> [i \in Ids |-> 0],        \* idle_inhibit.surface_counts
   inhibited |-> FALSE,                    \* idle_inhibit.inhibited
   pending   |-> [i \in Ids |-> None],     \* pending.buffer_id
   current   |-> [i \in Ids |-> None],     \* current.buffer_id
   damage    |-> [i \in Ids |-> 0],        \* pending.damage.len()
   over      |-> [i \in Ids |-> None],     \* outputs the current state covers
   member    |-> [i \in Ids |-> {}],       \* surface_output_membership
   store     |-> [i \in Ids |-> 0],        \* bytes of each shm backing
   fake      |-> {},                       \* backings that are FakeMemory
   adv       |-> {},                       \* runtime_global_names
   selection |-> None,                     \* data_device.seat_selections
   shown     |-> {},                       \* surfaces in CANONICAL_SCENE
   input     |-> {}]                       \* PhysicalInput commands queued

Row(k, id, of, at) == [k |-> k, id |-> id, of |-> of, at |-> at]
RowsOf(c, k) == {r \in c.tab : r.k = k}
Keys(c, k) == {r.id : r \in RowsOf(c, k)}

(* HashMap::insert replaces what was kept under the same key.               *)
Put(c, r) == {q \in c.tab : ~(q.k = r.k /\ q.id = r.id)} \cup {r}
Without(c, k, id) == {q \in c.tab : ~(q.k = k /\ q.id = id)}

(* register_client_object accepts an id that is neither live nor retired.   *)
(* The connection loop writes the delete_id events of a request before it   *)
(* reads the next one, so no id is retired between two requests.            *)
Fresh(c, id) == c.obj[id] = None
Live(c, id) == id \in Ids /\ c.obj[id] # None
Is(k, id) == core.obj[id] = k

(* destroy_object and the delete_id event that follows it.                  *)
Free(c, ids) == [i \in Ids |-> IF i \in ids THEN None ELSE c.obj[i]]

----------------------------------------------------------------------------
(* The client's side.                                                       *)

Polite(rule) == orderly => rule
Has(k, id) == \E r \in mine : r.k = k /\ r.id = id
Unnamed(id) == \A r \in mine : r.id # id

(* The id of a new object: one the orderly client does not use, or one the  *)
(* server has free.  Any client's use of another id is a BadRequest.        *)
Offers(id) == IF orderly THEN Unnamed(id) ELSE Fresh(core, id)
NoneOn(ks, of) == \A r \in mine : r.k \in ks => r.of # of

(* An orderly client destroys what refers to an object before the object.   *)
(* Callbacks and feedbacks belong to the server once they are asked for.    *)
(* "entered" is the surface the client has last seen a pointer enter.       *)
Owned == {"wl_callback", "wp_presentation_feedback", "entered"}
Unreferenced(id) == \A r \in mine : r.k \in Owned \/ (r.of # id /\ r.at # id)

Recorded(rows) == IF orderly THEN rows ELSE {}

(* dispatch_with_fds: a request on a live object with its interface; an     *)
(* error ends the connection and everything of the client goes with it.     *)
Request(g) == gone = "no" /\ g \in bound

Dropped(why) ==
  core' = Blank /\ mine' = {} /\ gone' = why /\ UNCHANGED <<orderly, bound>>

Respond(ok, c, rows) ==
  \/ ok /\ core' = c /\ mine' = Recorded(rows) /\ UNCHANGED <<orderly, bound, gone>>
  \/ ~ok /\ Dropped("request")

(* A request that makes an object: the id is registered and the manager     *)
(* keeps a row for it when its own check (ok) allows.                       *)
Create(k, id, of, at, ok) ==
  /\ Offers(id)
  /\ Respond(Fresh(core, id) /\ ok,
             [core EXCEPT !.obj[id] = k, !.tab = Put(core, Row(k, id, of, at))],
             mine \cup {Row(k, id, of, at)})

(* A request that makes an object its manager keeps nothing about.          *)
Plain(k, id, of, ok) ==
  /\ Offers(id)
  /\ Respond(Fresh(core, id) /\ ok, [core EXCEPT !.obj[id] = k],
             mine \cup {Row(k, id, of, None)})

(* The new object is registered before the objects it names are looked up.  *)
Refers(id, of) == of = id \/ Live(core, of)

(* A request names a live object: dispatch looks the id up first.  An       *)
(* orderly client names an object it believes it has.                       *)
Names(k, id) == IF orderly THEN Has(k, id) ELSE Is(k, id)

(* Mutant: the registry's object goes and the manager keeps its row.        *)
DestroyKeepsRow(k, id, ok, c) ==
  /\ Names(k, id)
  /\ Polite(Unreferenced(id))
  /\ Respond(Is(k, id) /\ ok, [c EXCEPT !.obj[id] = None], {r \in mine : r.id # id})

(* A destructor: the manager's row goes, then the registry's object.        *)
Destroy(k, id, ok, c) ==
  /\ Names(k, id)
  /\ Polite(Unreferenced(id))
  /\ Respond(Is(k, id) /\ ok,
             [c EXCEPT !.obj[id] = None, !.tab = Without(c, k, id)],
             {r \in mine : r.id # id})

(* Managers that remove without looking, and those that refuse to destroy   *)
(* what they have no row for.                                               *)
Lenient(k, id) == Destroy(k, id, TRUE, core)
Strict(k, id) == Destroy(k, id, id \in Keys(core, k), core)

(* Any other request on an object whose manager looks its row up.           *)
Touch(k, id, ok) ==
  /\ Names(k, id)
  /\ Respond(Is(k, id) /\ ok /\ id \in Keys(core, k), core, mine)

(* A request whose effect no other request looks at: the object must exist. *)
Note(k, id) == Names(k, id) /\ Respond(Is(k, id), core, mine)

(* A request on an id that is not live, a new object under an id in use, an *)
(* interface or opcode without a handler, arguments that do not match: all  *)
(* end the connection.                                                      *)
BadRequest ==
  /\ gone = "no"
  /\ ~orderly
  /\ Dropped("request")
=============================================================================
