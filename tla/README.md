# Formal models of the PL2020 flexible cell

The repository drives a simulated production cell: a loop of rail with 24 stops
and 12 switches, shuttles that carry products, four robots with two work posts
each, all in a CoppeliaSim scene; around it, ROS nodes in C++ that talk over
topics and services; at the centre the command, a Petri net that students write
on top of two libraries. This directory holds TLA+ models of the nodes, the TLC
configurations that check them on small instances, and proofs for the TLA+
proof system.

## 1. The system

All paths are under `src/ros_ws/src/` unless they start with `src/`.

| part | state it keeps | operations | talks to |
|---|---|---|---|
| shuttle manager `shuttles/src` | one queue of shuttle numbers per section, last sensor image | sensor callback, loop at 25 Hz over the falling edges, service `get_id_shuttle_at_poste` | sensors in; service for the robots; `Erreur_log` out |
| robot node `robots/src` (one per robot) | pose asked for, cubes in the gripper, a task flag per post, one flag and value per simulator channel | callbacks for each order, `update` once a second | simulator (8 pairs of topics), shuttle manager, command |
| `commande/src/RobotsInterface` | what the command believes: position, arm, gripper, tasks, DeplacerPiece; products that wait for their mark | orders, return callback, getters, `AjouterProduit` | robot nodes, `commande_locale` |
| `commande/src/main_commande` | marking of the net | the net, evaluated once per `spinOnce` | everything |
| `commande/src/commande.cpp`, `AigsInterface`, `actionneurs` | words of the stops and switches, locks | orders of the net, four callbacks of the switch node | switch node, scene |
| switch node `aiguillages/src` (one for all switches) | last sensor image of each switch | two callbacks that loop until the sensor shows the stop | command, simulator |
| `commande_locale/src` | request and answer of `addProduct` | two threads, menu and spinner; `addProduct`, pause, play | simulator, command, robots |
| `commande_locale/src/LogManager.cpp` | lines of the log, one flag for the time | a callback per kind of line | simulator |
| `src/checker.py` | - | compares a log with a configuration | - |
| `automates`, `communication` | bits of the real PLCs | Modbus polling | the real cell |
| the scene `src/sim` | where shuttles, cubes and arms really are | - | all |

What is hard in it:

* The shuttle manager sees no shuttles, only sensor levels, sampled at 25 Hz
  from a subscriber that keeps one message. It infers who is where by moving the
  head of a queue at each falling edge, with the switch as it is *when the edge is
  found*. One wrong edge and every later answer is about another shuttle.
* The robot node, the switch node, the log manager and `commande_locale` wait in
  the same way: `while(!repSim_x) spinOnce()` inside a callback. That `spinOnce`
  runs other callbacks inside the one that waits, there is one flag per channel
  and not one per question, and the innermost wait finishes first.
* The command learns that something is finished only by codes that it must not
  read too early or too late, some orders have no return, and some codes are
  published for two reasons (8 and 9: a task is finished, or was interrupted,
  or refused).
* The net waits for some of the things it relies on and not for others; between
  the shuttles, the robots and the switches what happens first is up to the scene.
* A product is put on a post by the net or by the menu; scene, marks of the net
  and log learn of it by three ways, and menu and net wait for each other.

What makes each part correct, in short: the queues are the sections; a shuttle
is in one queue; the service names the shuttle that stands there; an answer is
used for the question it answers; every wait has an answer to come; products are
neither lost nor doubled, and an overwritten one is reported; what the command
reads as finished is finished; every order ends; a switch ends where it was last
asked to be, locked, and never moves under a shuttle; the net is safe and gets to
its end unless one of the meetings that it allows happens; the log has a line per message, and says what was done. The list of
hazards with their lines is in `PROJECT.json`.

## 2. Modules

```
Reseau -- ShuttleManager --+                Topics -- Robot -- RobotPieces --+
   |                       +- SuiviNavettes    |                             |
   +----- Voie ------------+       |           +----- RobotsInterface -------+- CommandeRobot
   |       |                       |           +----- Simulateur ------------+       |
   |       |    LieuNavettes <-----+               MC_Robot, CommandeRobot_proofs
   |       |                       |                              |
   |       |                       |                       BrasRobot_proofs -- PiecesRobot_proofs
   |       |        MC_Suivi, MC_Cellule, SuiviNavettes_proofs -- SuiviExact_proofs
   |       +-----------------------+
   +- Cellule (tables) ------------+
      CommandeNet -----------------+- CelluleCommandee -- MC_Commande
      RobotsAbstraits -------------+         |
      Verificateur (INSTANCE) -----+   CelluleCommandee_proofs

Aiguillage -- ActionneursAiguillages -- OrdresAiguillages -- MC_Aiguillages, Aiguillages_proofs
                                             |
                                   PositionAiguillages (abstract)

AjoutProduit --+
               +- AjoutJournalise -- MC_Ajout, AjoutJournalise_proofs
Journal -------+
```

**Tracking.** `Reseau` declares the rail network: sections, switches, successors;
its ASSUMEs say what a network is (a section has a successor and is not its own, a
shuttle starts in one queue). `Cellule` gives the tables of the real cell.
`ShuttleManager` is the node. `etape` is where the main loop is: waiting for
`nbNavettes`; sampling (`Releve`: `mem_capteur`, `etat_capteur` and the falling
edges); treating the edges one by one in increasing order (`TraiteFront`, which
calls `maj`, the function of `FileAttente`, on the switch image it has *now*).
`CallbackCapteurs` and `ShuttleAtPoste` only run in the `spinOnce` at the end of
an iteration. `Voie` is the rail, external. `SuiviNavettes` composes both. Two
constants say what is asked of the environment: `Cadence` (the rail is slow for a
25 Hz loop) and `Discipline` (switches are set in time and stay until the
departure is treated). Both FALSE: anything may happen, edges are missed, switches
move under a shuttle. `LieuNavettes` is the abstract specification: each shuttle
has one place, moves to a neighbouring section, or is lost for good with an error;
`ImplementeLieux` is the refinement, with the place of a shuttle read off the
queues.

**One robot.** `Robot` is the control of the robot node: a stack of steps
(`appels`), the innermost callback first. A callback is the list of its steps
(`DeplacerPiece`, `ControlerRobot`, `Callback`); a step that waits has its channel
in `attend`. `SpinOnce` may run whenever the step on top waits and its flag is low:
it takes all messages that have arrived (`lot`), and an order among them pushes its
steps on the stack. `RobotPieces` is what the callbacks do to cubes: `Colorer`
(prise and pose), `colorerPosteDebutTask`, `colorerPosteFinTask`, `update`,
`Evacuer`, `stopTacheCallback`. `RobotsInterface` is the class of that name for one
robot. `Simulateur` is the scene, external: a FIFO per channel, channels
independent. `CommandeRobot` composes a command, one robot and the scene. A
behaviour draws one set of orders from `Programmes` (variable `programme`) and gives
any of its orders in any sequence; which kinds of orders overlap is the constant
`Compatibles`; `Prudent` says whether the command looks before it gives an order.

**Switches.** `Aiguillage` is the switch node: `entree` is what has arrived, `pile`
the loops that wait for a stop, innermost first. A loop that has treated a
`spinOnce` and does not see its stop sends the move again (`Renvoi`); one that does
sends the lock and returns (`FinDeTour`). `ActionneursAiguillages` is what follows:
the callbacks of `commande.cpp` that build the words, one connection per topic, so
that unlock, move and lock may overtake each other; `StateSwitchCallBack`; the scene,
which reads the last words only. `OrdresAiguillages` adds the net, whose constant
`Attente` says what it waits for before it orders a switch again: nothing, the
sensor of the stop (`"butee"`), or until nothing about that switch is under way
(`"repos"`). `PositionAiguillages` is the abstract specification: a switch goes to
the side last asked for and stays there.

**The command net.** `CommandeNet` has the 28 transitions of `main_commande.cpp` as
a table, in the order of the text, and the loop that plays it: within one turn all
rows read the image of the last `spinOnce`, and a row fires on the marks of the rows
above it. `RobotsAbstraits` is the four robots as the net sees them, one step for a
piece taken, put, a task ended. An order is first published (`publies`); its callback
begins in whatever `spinOnce` the robot is (`Commence`), so inside another callback or
inside the end of a task if one waits, and `pile` is the stack of the calls of each
robot, of which only the innermost goes on. `CommandeRobot` shows what goes wrong when
two of them share a flag, so `RobotsAbstraits` does not go into it: the first such pair
of each robot is kept in `conflits`, the robot may be blocked from then on (`bloques`),
and what is stated about the products is stated as long as there is none. `manques` keeps
the sensors whose level went by, while the net waited for it, during one of its sleeps.
Both are history variables: no action looks at them to decide what it does.
`CelluleCommandee` puts net, robots, rail (`Voie`
with the tables of `Cellule`) and switches (one step to the side asked for, what
`PositionAiguillages` promises) together, with the pauses of the user and the log.
`Verificateur` is `checker.py` as operators: `Verdict` is the set of its complaints.

**Additions and log.** `AjoutProduit` is `addProduct` step by step in the two
threads of `commande_locale`: the stack of the calls of each thread, the two flags
and requests they share, the service that either thread may take up. `Journal` is
the log manager: two callbacks that wait for the time inside each other, topics
that keep one message. `AjoutJournalise` composes them with the menu and with
`AjouterProduit`, `ProductAddPushBack` and the loop of the net that turns codes into
marks. `Un`: menu and net do not add at the same time. `Cadence`: two lines of the
log do not ask for the time in the same step of the simulation.

Abstractions, by module:

* Seven joints are one pose, polled once per turn; `EnvoyerJoints` goes to a pose
  of its own. Time is not counted: a task may be over at any update, a gripper
  after any answer but the first.
* `repSim_getTimeUpdate`, `Aig_D` and `Aig_G` are not set by the constructors and
  start as any value.
* A colour is a number as in the code; a stack has `NB_CUBE` cubes. In
  `RobotsAbstraits` a product is its number with the list of the posts it was
  worked on, which is what its cubes tell.
* Words of bits are sets of switches. Orders to stops and pins are taken at once:
  each has one message and the latest wins.
* Topics lose nothing where their queues hold 10 or 100 messages and few are under
  way. Those that hold one are modelled: the sensor image as a sample, the two
  topics of the log as a place that is overwritten.
* Lines of the log about tasks are written at once (`tempo`); their topic holds one
  message as well, so two ends of tasks in one turn of the log manager could lose
  one. They come from different robots seconds apart in the shipped net.
* In `CelluleCommandee` time is counted in rounds (`Allure`, see section 3).
* Requests to the service before the queues exist (out of bounds in the code) and
  `couleur[-1]` on a post emptied during its task (undefined) have no effect in
  the models; both are listed as hazards.
* Other publications (display) are left out.

Each module has, just before a definition, the mutants of that definition: what
a plausible slip in the code would make of it. No specification uses them; each
property of a passing run is checked to fail when the mutant replaces the definition.

## 3. Runs

| run | what varies | shows |
|---|---|---|
| `suivi_discipline` | 3 sections, 2 switches (a fork and a join), 2 shuttles; Cadence, Discipline | `SuiviExact`: queues = sections up to edges under way; no false loss; the service names the shuttle that stands there; every departure is treated |
| `suivi_libre` | the same network, no hypothesis | a shuttle is never in two queues; each one given up is reported; refinement of `LieuNavettes` |
| `cellule` | the 34 sections and 12 switches of the cell, one shuttle | every section is reachable from where the shuttle is; the two tables agree on the places of a robot |
| `robot_serie` | one order at a time, given with care: moves, tasks, evacuation, or the elementary orders of the arm; shuttles come and go | the eight safety properties of `CommandeRobot`; every order ends |
| `robot_imprudent` | refused orders, one at a time: no product, full post, no shuttle, a stop for a post where no task runs | every order is answered |
| `robot_reveil` | an evacuation while a task starts | **violated**: a wait with no answer to come |
| `aiguillages_repos` | two switches, orders to a switch at rest | it moves only unlocked, is locked when at rest, ends on the side last asked for; refinement of `PositionAiguillages` |
| `aiguillages_rien` | one switch, orders at any time | every loop of the node ends |
| `aiguillages_butee` | one switch, an order as soon as the stop is seen | **violated**: the last order loses against the one before |
| `commande` | the shipped net on the cell, two shuttles, a pause anywhere | the net is safe, orders moves and tasks only between posts at rest, turns a switch back only on the side asked for, moves none under a shuttle; which calls of a robot can meet and which sensor can be missed (`RisquesConnus`); if no calls meet, no error and `VerdictDuNet`; if no awaited level is missed either, it gets to its end |
| `ajout` | two additions of the net and one of the menu on two posts; `Un`, `Cadence` | every addition ends, an overwritten product is reported, marks and products agree, a line of the log per message |
| `journal` | the same without `Cadence` | **violated**: a line is lost, the product goes out without having come in |

The violated runs are the disagreements between code and its own comments found
while modelling; `PROJECT.json` quotes the comment in each case.

* `robot_reveil` is reachable in the shipped net, which on robot 2 starts the task of
  post 4 and then moves, works on and evacuates pieces of post 3 before it waits for it.
  `RisquesConnus` of the run `commande` is the list of what can meet there: the end of
  that task in `update` with the move, the task of post 3 and the evacuation ordered
  meanwhile; and the task of post 4 or the evacuation with the move around them, when the
  second that the command sleeps was not enough. All of these pairs occur.
* `aiguillages_butee` needs an order back as soon as the stop is seen. The shipped
  net does not do that: `AiguillageAuRepos` of the run `commande` shows that it turns
  a switch back only when it is on the side asked for. That is the first condition of
  `Attente = "repos"` only: that the node knows it and has left its loop is a matter of
  time, a shuttle of a few seconds having passed before every order back of the table.
  With it `aiguillages_repos` is the case of the net; students' nets may be the other one.
* `journal` needs two additions close together. The shipped net makes two in a row
  in its first transition; only the time of a service call keeps them apart.

**What `VerdictDuNet` says.** `src/ProductConfiguration.config` asks for product 6 on
the posts 7, 6, 5 for 3, 6, 3 s. The net works it on 7, 6, 5, 5 and 3; the log keeps
the first three cubes only, so the checker sees 7, 6, 5 and is content, and its one
complaint is the time of the last task on post 5 (1 s for 3 s). The property is that
this is what it says in every interleaving in which the calls of no robot meet; after a
meeting a cube may be written wrong or an evacuation logged wrong, and nothing is known
of the verdict. Its first row adds two products in a row; when the log manager loses the
first of the two lines (the run `journal`), the checker stops with an IndexError, which is
the second half of the property. For the same reason as above a configuration with
four or five destinations can never match.

**Bounds.** Two shuttles are the fewest for one to be taken for the other or for
two edges in one iteration; the small network has each shape of junction of
the cell, and the cell itself is covered with one shuttle, by the tracking, and with
the two of the shipped net, by `commande` (`CommandesLibre` and the commands of
`MC_Cellule` bound which switches move). For the robot: two cubes per stack (a
product and one task) make a post empty, started and full; one shuttle and two
places give present, absent and moved; `MaxBas` bounds how often the arm is lowered
in a row, `MaxSortie` how far the command lags behind in reading returns. For the
switches: `MaxOrdres` orders in all, of which two make one nested in the other and
three the order after; `MaxActionneurs` messages on the way to the scene. For the
additions: three of them, two on one post, so that one overwrites, and one of the
menu that meets each of those of the net. `MaxPauses` pauses in the net.

**Rounds.** The shipped net relies on speeds: it sends robot 4 to the shuttle at
PS10 on the arrival of the *other* shuttle at PS2, and robot 3 to PS15 on the end of
two tasks; nothing waits for the shuttle the piece is for. In a round each shuttle
that is not held reaches at least one sensor and at most `Allure`, each switch its
stop, and no robot does more than one step of its work; and a round is longer than the
second the command sleeps in `FaireTache` and `Evacuer`, than the call of `AjouterProduit`
and than a robot takes to read and write a place (`Ronde` waits for them). Within a round
anything may come first. A level of a sensor lasts longer than a turn of the loop of the
net, except a turn that sleeps (`Change`): then it may be missed, which `manques` notes.
The one that the net waits for and can miss so is PS20, just after `FaireTache(6)`.
`Allure = 1` is
"two shuttles of one make". With `Allure = 2`, `SansErreur` fails: a robot takes a
piece from a shuttle that is not there. `MarquageSain`, `OrdresPrudents` and
`AiguillageAuRepos` do not depend on it, and are proved for every value.

A shuttle leaves its stop by the switches as they are; when they lead nowhere, or into
the side of a switch set for the other track, it stays (`Passage`), and `AiguillagePret`
says that no free shuttle ever finds them so. It is stated while the net is played: its
last row turns switches 1 and 2 wherever the shuttles are, after which nothing of the
net matters.

**Deadlock** is checked in all runs but five. The orders of the three
`aiguillages` configurations are bounded in number, and so are the additions of
`ajout` and `journal`: when they have been treated nothing more need happen.

**Fairness.** `SuiviNavettes`: the manager keeps looping (weak) and a sensor
message is delivered again and again (strong, because a turn may find none); no
shuttle is obliged to move. `CommandeRobot`: the node, the scene and the arm keep
running and the command keeps reading its returns (weak: each is a process that
loops); a task and a gripper end some day (strong: at each poll time may or may
not have come, and simulated time grows). `DonneOrdre` has no fairness;
`OrdreTermine` is `[]<>(demandes = {})`. `OrdresAiguillages`: each process loops
(weak); a topic is not starved by the others and a switch drives on although moves
are held back while a message is under way (strong); the net owes no order.
`CelluleCommandee`: the cell does not stop for ever while it can do something, a paused
simulation being played again (weak fairness of `Next`); the rounds leave nobody behind, so
no more is needed; nobody is obliged to pause. `AjoutJournalise`: both threads, the command, the
log manager and the scene (weak); the user owes no addition. In `ToutAjoutFinit` the
fairness of the two threads is what breaks the circle menu - command -
`commande_locale`: the spinner is a thread of its own.

## 4. Proofs

`SuiviNavettes_proofs` proves, for every network that satisfies the assumptions
of `Reseau`, every number of shuttles and both modes:

* `TypeCorrect`: `Spec => []TypeOK`;
* `JamaisDeuxFiles`: `Spec => []UneSeuleFile`, a shuttle is never in two queues
  nor twice in one, whatever edges are missed;
* both from the inductive invariant `InvInductif` (`InvariantCorrect`), their
  conjunction with `NavettePresente` (a high sensor has a shuttle in its section). It is
  needed because the rail moves the head of a section when its sensor falls:
  types alone do not say that there is a head.

The argument: `EffetTraiteFront` reduces the treatment of an edge to three
effects on the queues (none, drop a head, move a head to another queue);
`QuiTouche` says no other step but the start touches them; `Origine` gives each
element of the new queues the place it came from, and `OrigineInjective` that two
elements never come from one place, so uniqueness is kept. `MinimumExiste` (a
non-empty set of sections has a least one) rests on the well-foundedness of the
naturals, `MajProperties` on the assumptions about successors.

Its second part rests on them:

* `TrackingImplementeLieux`: `Spec => ImplementeLieux`, the refinement of
  `LieuNavettes`. `TeteSeuleBouge` says that treating an edge takes the head of
  one queue to another one, or out of all, and leaves every other shuttle where
  it is (it needs `UneSeuleFile`: a shuttle in two queues would have two places);
  so the mapping `Lieu` changes at one shuttle, to a successor (`Avance`) or to -1
  with one more error (`Perd`), the start is `Demarre`, and the rest stutters;
* `PerteToujoursSignalee`: `Spec => []PerteSignalee`, from the same lemma: the set
  of the shuttles in the queues loses one element when an error is published and
  never otherwise. The invariant adds `Comptes` (no error before the start).

`CelluleCommandee_proofs` proves `NetSain`: `Spec => []MarquageSain` for the shipped net
on any rail that has the sections of the cell, with any number of shuttles, speeds
and pauses - no sensor, robot or pause can put a mark too many. The invariant
`InvNet` says that the story of the net has its mark at one place `c` (`RecitEn`),
that the branch of places 141 and 142 has at most one and none before place 140 is
reached, and where the codes of the two products are (`ProduitsSains`: waiting in
`produit_a_ajouter`, marked, or taken back), which depends on `c`: the first
transition asks for them, and the one at place 10 takes the marks back without a
test. It holds there because the loop puts the marks of all waiting codes at the start of
each turn, and the turn that fires the first row reads sensors of before any
shuttle moved: the row of place 10, which needs PS1, has to wait for a later turn.
`retours` without sensors is the part that says no end reads as PS1.
`LignesDuRecit` reads off the table that a row moves the mark of the story to a
place further down, so that no place is marked twice; `LignesDesProduits` that only
the first row adds products.

The second part of the module says what can be under way at each place. `Mouvements`,
`Travaux` and `Tourne` give, for a place of the story, the moves, the tasks and the
switches that the table has ordered and not yet waited for; `OrdresMouvements`,
`OrdresTaches`, `OrdresAigs`, `AttentesMouvements` and `AttentesTaches` check these
against the 28 rows, and `DUnePlaceALAutre` that the sets of a place and of the next one
differ by what the row orders and waits for. The invariant `InvOrdres` ties them to the
state: a robot that has a move of the place works on that move, with its end neither
published nor seen, or has ended it, with its end published once; every other robot is
at rest; so for the posts; every other switch is where it was sent. That an end is
published *once* is the delicate part: an end that could still be in `retours` when the
next order clears the value would be taken for the end of that order. From it:

* `OrdresToujoursPrudents`: `Spec => OrdresPrudents`;
* `AiguillagesToujoursAuRepos`: `Spec => AiguillageAuRepos`. The net reads a switch for
  one row only (`DG(3)`, `DG(10)` at place 50). The others, and the return of these two
  at place 70, it gives the time of the rest of the story: `Tourne` keeps them until the
  end of the move of robot 3 at place 90, which takes a round, and in a round a switch
  arrives. A seen `DG` could be of an earlier position; `AigEn` says why it is not;
* `TypesDeLaCellule`: `Navettes \subseteq 0..5` implies `Spec => []TypeOK`. It needs
  `InvOrdres`: that a robot takes from and puts on places that exist, and that a piece
  taken ends no task, follow from the moves of the table. `TypesAppels` is the part about
  the stacks of calls.

These theorems do not suppose that the calls of a robot do not meet: they rest on when an
end is published and not on what was read. They do rest on `RobotsAbstraits` for that: an
end is published once, by a call that is over.

The second part of `AjoutJournalise_proofs` proves `EcrasementToujoursSignale`: under `Un`,
`Spec => []EcrasementSignale` for any posts, products, list of additions of the net
and number of additions of the menu, with or without `Cadence`. The invariant
`InvAjout` has types, `UnAppel` (one call of `addProduct` in all threads, whose
origin says who waits) and `Questions`: at each step of the call, where its question
and its order are (asked, answered, flag up), and that the colour in the answer
still serves when it is used, although a robot may empty the post meanwhile: the
answer may say "full" of a post now empty, never "empty" of a full one. That both
flags are down when a call begins is the point of the property: the mutant that
leaves one up makes the next call read the answer of the one before.

The third part proves `MarquesToujoursSuivies`: under `Un`, `Spec => []MarquesSuivies` for
any posts, products and additions. The invariant follows each product put on a post until
it is a mark (`MarqueSuivie`): it is in the call that ordered it once the scene has obeyed
(`PlaceeLa`), in the request of the menu, in the net that has still to tell the log, or in
the codes that wait, and the sum over the products is what was put there
(`MarquesExactes`). Only the scene that puts a product and a product that leaves change a
sum, by one; all the other steps move a product from one term to the next. `Provenance`,
that the call of the service is about the product the net is adding, is what lets the end
of the call pass it on. Products are 1..6, so the sum is written with its six terms
(`Somme`): with a fold it would be an induction over data.

`SuiviExact_proofs` builds on `SuiviNavettes_proofs`. Under `Cadence` and `Discipline`
(constants of the model, both TRUE in the run `suivi_discipline`) it proves, for every
network and number of shuttles:

* `SuiviToujoursExact`: `Spec => []SuiviExact`;
* `JamaisDeFaussePerte`: `Spec => []PasDeFaussePerte`, no error of the tracking;
* `ServiceToujoursJuste`: `Spec => ServiceNommeLaNavette`.

The invariant `InvSuivi` follows a departure from the falling sensor to the treatment of
its edge: `DepartsSuivis` (meanwhile the sensor stays low, the switch behind it stays,
the shuttle is still at the head of its queue, and a low level received came with the
switch as it is), `DepartsSepares` (two departures do not go to one section, so the order
in which `maj` is called is without effect), and `SectionsExactes`, `SuiviExact` said of
each departure on its own. `Echantillon` ties the image, its sample and the edges.

`Aiguillages_proofs` proves `TypesAiguillages` (`Spec => []TypeOK`) without a hypothesis
and, when the net orders a switch only if nothing about it is under way
(`Repos == Attente = "repos"`), for every number of switches, orders and messages under
way:

* `ToujoursDeverrouille`, `ToujoursVerrouille`, `ToujoursDernierOrdre`:
  `Spec => []BougeDeverrouille`, `[]VerrouilleAuRepos`, `[]DernierOrdre`;
* `OrdresImplementePosition`: `Spec => PositionSure`, the safety part (initial states
  and steps) of the refinement `ImplementePosition` of the run; its fairness is left
  to TLC.

All of them rest on the guard of `Bouge`: a switch does not start while a message about
it is on its way to the command, since the rail is slower than a topic. A node that
published its move before its unlock would pass them; one that forgot the unlock does not.

The invariant `InvAiguillages` (proved to hold by `AiguillagesSuivis`) says of each switch how far its last order has come:
not treated yet (nothing moves, no message of it anywhere), or treated, and then which
of unlock, move and lock can still be under way on the three connections, and what the
words of the actuators and of the scene can hold (`MessagesSuivis`, `VerrouSuivi`).
`ImagesSuivies` is what overtaking makes necessary: an image that shows the stop asked
for, in the node or under way, is no older than the arrival there. Without it a loop
could lock on an old image; with orders at any time that is what happens
(`aiguillages_butee`).

`AjoutJournalise_proofs` proves, for all posts, products, additions and lengths of queue:

* `TypesDesAjouts`: `Spec => []TypeOK`, without a hypothesis. Types alone are not
  inductive: the threads share the message they ask with, so `Suivis` says that a call
  past its question has written one, and `UnService` that the request of the service is
  in one place only, with the command waiting for it;
* `JournalToujoursExact`: under `Cadence`, `Spec => []JournalExact`. The invariant adds
  `UneReponse`: at most one answer of the simulator is under way or not yet used, so that
  the one flag of the log manager is never raised twice for two answers. The lemmas on `Nombre` (how often a line occurs in a sequence) carry the count of each line
  through `Append`, `Tail` and the overwritten queue.

`CommandeRobot_proofs` proves, for every set of orders that `RobotsInterface` can publish
(`OrdresPossibles`; `CommandeAssumption` says that the command gives no other), every
`NB_CUBE`, scene and shuttles, with or without care (`Prudent`):

* `TypesDuRobot`: `Spec => []TypeOK`, whatever orders overlap;
* `AttenteToujoursServie` and `ReponseToujoursLaSienne`: `Spec => []AttenteServie` and
  `Spec => []ReponsePourLaQuestion` when the command gives one order at a time
  (`UneALaFois == Compatibles \subseteq {{g} : g \in Genres}`). The run `robot_reveil`
  shows that the first is false without it: two questions on one channel share one flag.

The lemmas first reduce each operation of the node to what it does to the stack: the
callback on top goes on (`Poursuit`), ends (`Termine`), or something is pushed
(`SuitesDuRobot`, `FinsDuRobot`). The inductive invariant `Inv` has three parts:

* `InvTypes`, with `EtapeJuste`, what each kind of step has in its fields: a colour of a
  cube is never asked beyond the last one, because a reading that waits has read fewer
  than `NB_CUBE`;
* `InvTravail`, that one order at a time for the command is one at a time for the node.
  This is the long part, and not evident: the command goes on when it *reads* an end, so
  no end may be announced twice or left over from an order before (`FinsAttendues`,
  `UnTravail`). An order on its way finds the node without work (`OrdreEnRoute`), while a
  post works nothing else is done (`TacheSeule`), the steps on the stack are those of the
  order given, its end last (`InvEtapes`), and a task that ends by time does so at the
  bottom of the stack (`UpdateAuFond`);
* `InvQuestions`: then at most one callback waits, the one at work, with nothing above it
  but a `spinOnce` (`UneAttente`); what it waits for is under way (`Servie`); a question
  about a colour is in one place only, as request, message or flag (`UneQuestion`), and
  is the question of the one who waits (`QuestionPosee`).

`BrasRobot_proofs` builds on it, for one order at a time too, with or without care:

* `BrasToujoursSurPlace`: `Spec => []BrasSurPlace`, a place is read and written with the
  arm lowered over it;
* `FinDeplacerToujoursExacte`: `Spec => []FinDeplacerExacte`, when the command reads that
  `DeplacerPiece` is over the gripper is empty and the arm up.

A callback cannot see the arm: it asks for a pose, then asks where the arm is until the
answer is the pose asked for. The invariant `InvRobot` adds to `Inv`:

* `InvVols`, one message at most is under way on a channel, and for someone who waits
  there; `InvAttentes`, which step waits on which channel;
* `InvBras`: the last pose sent is `Rpos`, an answer that says `Rpos` is true when it is
  used (`SondeSuivie`: the arm may move between answer and use, but only to a pose not
  yet answered for), so that the arm is at `Rpos` when no step is moving it;
* `InvMouvement`: the steps of a `DeplacerPiece`, counted from its end, say where `Rpos`
  is (`Tenue`) and, for those not begun, what they are (`Intacte`). Counted from the end
  a step keeps its number when others are finished or a `spinOnce` is put on top.
  `PinceVide` says that the gripper holds something between numbers 8 and 4 only;
* `OrdrePris`, a callback of an order begins on an otherwise empty stack.

`PiecesRobot_proofs` follows the cubes on top of that. The node knows the scene only by
what it reads, one cube at a time, and takes a piece by reading a stack, erasing it, and
writing it elsewhere many messages later. Three theorems, for one order at a time, on a
scene that starts with no task under way (`SceneNeuve`):

* `CubesToujoursCoherents`: `Spec => []CubesCoherents`, at rest a half-transparent cube
  stands for a task the node holds, and conversely;
* `TacheToujoursFinie`: `Spec => []TacheFinieExacte` when the command looks before it gives
  a task (`Prudent`): otherwise the node may refuse the task, with an error, and still
  reports it as finished (`TacheImpossible`);
* `ProduitsToujoursConserves`: `Spec => []ProduitsConserves` for a command that looks, and a
  scene where no product is twice at the start (`ProduitsUniques`): no product is lost or
  doubled.

The run `robot_serie` satisfies the four hypotheses, and the parts of the invariant below
were checked on its instance before they were proved. The argument, `e` being the one step
at hand (`EnMain`: one at most, on top but for a `spinOnce`, by `PieceEnTete`):

* `InvScene` says what `e` knows: it works on the object at its position, which did not
  move away (`LieuJuste`: a shuttle waits while a piece is moved); what it has read is
  what the scene shows, until it has written (`LectureJuste`); the request under way holds
  what it will write (`Contenu`), and then the scene shows it (`PeintureJuste`); an answer
  about a colour is still true when it is used (`CouleursVraies`). It needs `InvQuestions`:
  with a second callback between two readings none of it holds;
* `InvPiles`: a stack has no half-transparent cube (`Saine`), or it is on a post with a task
  between its two writings (`Entame`), and then that cube is the last one and the only one
  (`Demi`), so that the search for the first 0 finds it and the final colour replaces it;
* `InvTaches`: a task given on a post with a product and room left still finds them
  (`TachePossible`), `update` asks for the time only for a task (`UpdateUtile`), and when
  nothing of the order is left the finished cube is there (`TacheFaite`);
* `InvProduits`: the place a piece is to be put is empty from the order to the writing
  (`DestinationVide`: the place it is taken from is emptied meanwhile, none is filled), and
  a product is in the hand of the robot and at no place, or at one place, or evacuated
  (`ProduitsSuivis`). The hand changes at the *writing* of a place and not when the answer
  is read (`Pris`): between both the gripper still holds the old content, which the steps
  `FinPrise` and `FinPose` then replace.

What is only model-checked, and why:

* `AiguillagePret`, `RisquesConnus`, `SansErreur`, `VerdictDuNet`: they depend on the geometry of the
  cell, on two shuttles and on rounds with `Allure = 1` (they fail with more), so there
  is no statement for every value of the constants;
* `ToutAccessible`: about the tables of one cell;
* all liveness: fairness and ENABLED are out of the prover's reach.

## 5. Notes on the code

Seen while modelling, outside the runs:

* Menu and net adding at the same time (`Un = FALSE`): both `EcrasementSignale` and
  `ToutAjoutFinit` fail. Two calls may each see the post empty; and one answer may
  raise the flag that another wait, nested or in the other thread, consumes, after
  which the command blocks in its service call.
* A stop sent for a post while its task runs (`stopTacheCallback`, sent when the user
  overwrites a product) publishes the end of the task at once. The command may then give
  the next order while `update` still waits for a colour of the old one, or while the
  FaireTache is still in the queue: its callback nests in that wait, and one of the two
  never ends. With `stopTache` or `deplacer` let overlap `tache4` in `Compatibles`,
  `robot_imprudent` deadlocks for this reason, so stops of a running task and pieces taken
  from a post at work are in no passing run.
* A `DeplacerPiece` in a `GetColor` wait of another callback (`robots/src/Robot.cpp:716`)
  takes its answer: the colour of another object.
* A second `FermerPince` in a row is never answered (`Robot.cpp:404`).
* The service answers for a shuttle that has not arrived at the place, or has just
  left it (`shuttles/src/main_ShuttleManager.cpp:42`).
* In `checker.py` an empty evacuation reads `nb_produit[-1]` and leaves `D_list`
  uncleared (`src/checker.py:332`); the last row of a product writes over the one
  before without clearing its tail; and a loop over `range(taille_D-1)` leaves the
  third task's transparent cube untested.
* The loop of the net takes the codes of products from the back of the vector. The
  order is without effect: marks commute.

## 6. Not modelled, and what is left

* **Start-up.** The service advertised before the queues exist and the unlatched
  `nbNavettes` (the two hazards without a property), the waits of the command for
  its services, the initialisation of the actuators, the loading of the shuttles.
* **The real cell** (`automates`, `communication`): Modbus exchanges with the PLCs,
  I/O with hardware; not used with the simulator.
* **Baxter** (`communication_baxter.cpp`): topics of another robot, not launched.
* **Display and wording**: `display.cpp`, `UI.cpp` (not built), the text of the log,
  the averages of the checker, the launcher and its scripts.
* **CoppeliaSim** and the headers and clients vendored with it, which are most of
  the lines of the repository: third party. The scene is binary and is modelled as
  the environment the nodes rely on.

Left to do, in this order:

1. `Demarrage`: the order in which nodes come up, for the two hazards above.
2. `CelluleCommandee` over `CommandeRobot`: what `RobotsAbstraits` takes from
   one robot, as a refinement, and what its cubes are after two calls have met.
