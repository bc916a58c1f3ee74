\* Sleeps of at most two ticks on a tick counter that wraps at 8; two nested critical
\* sections and two acquisitions per activation.
CONSTANTS
  timer = timer
  led = led
  light = light
  idle = idle
  NoThread = NoThread
  Threads = {timer, led, light}
  init_priority <- MCPriority
  init_tick <- MCTick
  Sleeps = {0, 1, 2}
  MaxOps = 2
  MaxNest = 2
  TickMod = 8
SPECIFICATION Spec
INVARIANTS QueuesSound RightThreadRuns
PROPERTY ImplementsMutex
