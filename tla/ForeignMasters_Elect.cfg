SPECIFICATION Spec
CONSTANTS
    Announces <- MCAnnounces
    Own <- MCOwn
    Capacity = 3
    Classes = {"default"}
PROPERTY ElectsBest
