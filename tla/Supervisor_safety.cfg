SPECIFICATION Spec
CONSTANTS
    gz = gz  nav = nav  job = job  ctl = ctl  amcl = amcl
    Child = {gz, nav, job}
    Oneshot = {job}
    HealthNode = {ctl}
    GatedChild = {nav}
    HealthNodes <- MCHealthNodes
    Deps <- MCDeps
    Topo <- MCTopo
    MapOrder <- MCMapOrder
    MaxRestarts <- AllOne
    BackoffBase <- AllOne
    BackoffMax <- AllTwo
    Window <- AllOne
    StartupTimeout <- AllOne
    Reactivates = TRUE
INVARIANTS
    TypeOK
    DownstreamOverLiveDeps
    ProcessOnlyWhileUp
    BudgetExact
    NoChildWithoutSupervisor
PROPERTY OneshotRerunOnlyAfterDeath
