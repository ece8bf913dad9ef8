CONSTANTS
    Tasks = {1, 2}
    Sizes = {3}
    MaxInstances = 2
    MaxFile = 6
SPECIFICATION Spec
INVARIANT ShowNoPanic
