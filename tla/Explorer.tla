------------------------------ MODULE Explorer ------------------------------
(***************************************************************************)
(* The explorer: a page in the browser that reads a Poster and a Reader    *)
(* directly.  Each tab keeps its settings in memory and writes all of them *)
(* to the browser's storage when they change; a load asks the services the *)
(* settings name and shows what it found when the last answers.            *)
(***************************************************************************)
EXTENDS Proxies

CONSTANTS
    Tabs,           \* open tabs of one browser
    Overridable,    \* VALID_OVERRIDE_KEYS: "readerUrl", "posterUrl", "contentTags", "limit"
    InForm,         \* keys the settings form writes
    Defaults,       \* the build-time value of each key
    ParsedAs,       \* [Overridable -> [texts -> values]]: parseContentTags, parsePanelLimit, or as it is
    Forms,          \* texts a form may hold, by key in InForm
    Foreign,        \* what a page outside this code, or an older one, may have left in storage
    Says,           \* [urls -> [tags -> reply]]: what the service at a URL replies
    MaxLoads        \* bound: loads a tab starts

OverrideTexts == UNION {DOMAIN ParsedAs[key] : key \in Overridable}
PanelNames == {"poster", "reader"}
PanelKinds == {"ok", "not_configured", "unreachable", "error"}

\* Storage holds no text for Garbled; a limit whose text is empty is the default one (parsePanelLimit).
ASSUME ExplorerAssumption ==
    /\ InForm \subseteq Overridable /\ Forms \subseteq [InForm -> OverrideTexts] /\ Bad \notin OverrideTexts
    /\ \A key \in Overridable \ InForm : ParsedAs[key][""] = Defaults[key]
    /\ \A stored \in Foreign \ {Garbled} : \A key \in DOMAIN stored \cap Overridable : stored[key] \in OverrideTexts \cup {Bad}
    /\ \A keys \in SUBSET Overridable : Garbled \notin [keys -> OverrideTexts]
    /\ Absent \notin [PanelNames -> PanelKinds] \cup Tabs

VARIABLE explorer
    \* stored: the browser's storage, a function of keys; writer: the tab that wrote it, or Absent
    \* tab[t]: [open, overrides, started, loads, newest, from, shown, refreshing]; newest and from number,
    \* by panel, the last load that was started for it and the one it shows

-----------------------------------------------------------------------------
(***************************************************************************)
(* Panels.                                                                 *)
(***************************************************************************)
\* A fetcher never throws: what went wrong is a kind of result.
PanelKindOf(url, reply) ==
    CASE url = "" -> "not_configured"
      [] url # "" /\ reply = Down -> "unreachable"
      [] OTHER -> IF reply.status \in 200 .. 299 THEN "ok" ELSE "error"

\* aggregateKind: the worst of the tags' results, and "not configured" without a tag.
Rank == [ok |-> 0, not_configured |-> 1, unreachable |-> 2, error |-> 3]
AggregateKind(kinds) ==
    IF kinds = {} THEN "not_configured" ELSE CHOOSE k \in kinds : \A l \in kinds : Rank[l] <= Rank[k]

LoadPanel(config, panel) ==
    IF panel = "poster" THEN PanelKindOf(config.posterUrl, Says[config.posterUrl]["any"])
    ELSE AggregateKind({PanelKindOf(config.readerUrl, Says[config.readerUrl][g]) : g \in config.contentTags})

-----------------------------------------------------------------------------
(***************************************************************************)
(* Settings.                                                               *)
(***************************************************************************)
\* Storage that does not parse, or is no object, counts as empty; so do its unknown keys and the
\* values that are no strings.
ReadStoredOverrides(stored) ==
    IF stored = Garbled THEN <<>>
    ELSE LET known == {key \in DOMAIN stored \cap Overridable : stored[key] # Bad}
         IN  [key \in known |-> stored[key]]

WrittenOverrides(overrides) ==
    LET kept == {key \in DOMAIN overrides : overrides[key] # ""} IN [key \in kept |-> overrides[key]]

MergeConfig(overrides) ==
    [key \in Overridable |-> IF key \in DOMAIN overrides THEN ParsedAs[key][overrides[key]] ELSE Defaults[key]]

\* Each field of the form in turn: an empty one clears its key, another sets it.
WriteOrClear(overrides, form) ==
    LET kept == DOMAIN overrides \ InForm
        given == {key \in InForm : form[key] # ""}
    IN  [key \in kept \cup given |-> IF key \in InForm THEN form[key] ELSE overrides[key]]

-----------------------------------------------------------------------------
ClosedTab ==
    [open |-> FALSE, overrides |-> <<>>, started |-> 0, loads |-> {}, newest |-> [p \in PanelNames |-> 0],
     from |-> [p \in PanelNames |-> 0], shown |-> Absent, refreshing |-> FALSE]

ExplorerInit ==
    \E stored \in Foreign :
        explorer = [stored |-> stored, writer |-> Absent, tab |-> [t \in Tabs |-> ClosedTab]]

NoExplorer == explorer = [stored |-> <<>>, writer |-> Absent, tab |-> [t \in Tabs |-> ClosedTab]]

\* Loads that a tab starts together, in order; each takes the configuration it was started with.
Start(tab, loads) ==
    [tab EXCEPT !.loads = @ \cup {[n |-> tab.started + i, panels |-> loads[i].panels, config |-> loads[i].config] :
                                     i \in DOMAIN loads},
                !.started = @ + Len(loads),
                !.newest = [p \in PanelNames |-> IF p \in Last(loads).panels THEN tab.started + Len(loads) ELSE @[p]],
                !.refreshing = @ \/ \E i \in DOMAIN loads : loads[i].panels = PanelNames]

WholeLoad(overrides) == [panels |-> PanelNames, config |-> MergeConfig(overrides)]

\* A bound on the loads: they are numbered in the order they start.
MayStart(t, n) == explorer.tab[t].started + n <= MaxLoads

\* The page is mounted: the settings are read, and a change of settings starts a load.
OpenTab(t) ==
    LET overrides == ReadStoredOverrides(explorer.stored)
    IN  /\ ~explorer.tab[t].open /\ MayStart(t, 1)
        /\ explorer' = [explorer EXCEPT !.tab[t] =
               Start([@ EXCEPT !.open = TRUE, !.overrides = overrides], <<WholeLoad(overrides)>>)]

CloseTab(t) ==
    /\ explorer.tab[t].open
    /\ explorer' = [explorer EXCEPT !.tab[t] = [ClosedTab EXCEPT !.started = explorer.tab[t].started]]

\* onApply refreshes with the settings the page was drawn with; then the change starts a load.
ChangeSettings(t, overrides) ==
    /\ explorer.tab[t].open /\ MayStart(t, 2)
    /\ explorer' = [explorer EXCEPT
           !.stored = WrittenOverrides(overrides), !.writer = t,
           !.tab[t] = Start([@ EXCEPT !.overrides = overrides],
                            <<WholeLoad(explorer.tab[t].overrides), WholeLoad(overrides)>>)]

Apply(t) == \E form \in Forms : ChangeSettings(t, WriteOrClear(explorer.tab[t].overrides, form))
ResetAll(t) == ChangeSettings(t, <<>>)

\* The button is disabled until a load has ended, be it another one.
RefreshAll(t) ==
    /\ explorer.tab[t].open /\ explorer.tab[t].shown # Absent
    /\ ~explorer.tab[t].refreshing /\ MayStart(t, 1)
    /\ explorer' = [explorer EXCEPT !.tab[t] = Start(@, <<WholeLoad(@.overrides)>>)]

RefreshPanel(t, panel) ==
    /\ explorer.tab[t].open /\ explorer.tab[t].shown # Absent /\ MayStart(t, 1)
    /\ explorer' = [explorer EXCEPT !.tab[t] =
           Start(@, <<[panels |-> {panel}, config |-> MergeConfig(@.overrides)]>>)]

\* A load ends, in any order: its panels show what it found.
LoadDashboard(t, load) ==
    LET tab == explorer.tab[t]
        found == [p \in PanelNames |->
                    IF p \in load.panels THEN LoadPanel(load.config, p) ELSE tab.shown[p]]
        from == [p \in PanelNames |-> IF p \in load.panels THEN load.n ELSE tab.from[p]]
        ended == [tab EXCEPT !.loads = @ \ {load}, !.shown = found, !.from = from,
                             !.refreshing = @ /\ load.panels # PanelNames]
    IN  explorer' = [explorer EXCEPT !.tab[t] = ended]

ExplorerNext ==
    \E t \in Tabs :
        \/ OpenTab(t) \/ CloseTab(t) \/ Apply(t) \/ ResetAll(t) \/ RefreshAll(t)
        \/ \E p \in PanelNames : RefreshPanel(t, p)
        \/ \E load \in explorer.tab[t].loads : LoadDashboard(t, load)

ExplorerSpec == ExplorerInit /\ [][ExplorerNext]_explorer

\* A client of the services, the pages of an application and the explorer, side by side.
ServedSpec == ReadApiSpec /\ ProxiesSpec /\ ExplorerSpec

-----------------------------------------------------------------------------
\* Where the last load started for a panel was also the last answered, the panel shows what the
\* tab's settings lead to (applying settings starts a load with the old ones too, and none is
\* cancelled); the Reader's badge is green only if there is a tag and all of them were answered.  And
\* the tab that wrote the settings last finds the same ones when it is loaded again.
DashboardIsCurrent ==
    /\ \A t \in Tabs, p \in PanelNames :
        LET tab == explorer.tab[t]
            config == MergeConfig(tab.overrides)
        IN  tab.shown # Absent /\ tab.from[p] = tab.newest[p] =>
                /\ tab.shown[p] = LoadPanel(config, p)
                /\ p = "reader" /\ tab.shown[p] = "ok" =>
                      config.contentTags # {} /\ \A g \in config.contentTags : Says[config.readerUrl][g].status \in 200 .. 299
    /\ explorer.writer # Absent /\ explorer.tab[explorer.writer].open =>
        MergeConfig(ReadStoredOverrides(explorer.stored)) = MergeConfig(explorer.tab[explorer.writer].overrides)

\* Whoever reads is told what the services say: a client of theirs page by page and request by
\* request, a page of an application through its routes, and the explorer through its panels.
ClientsAreServed == PagesComplete /\ AnsweredAsAsked /\ PagesAreHonest /\ DashboardIsCurrent
=============================================================================
